---- MODULE Spec2Model ----
(***************************************************************************)
(* A model of the yaqub SQL statement builders (src/src/query and          *)
(* src/src/schema).                                                        *)
(*                                                                         *)
(* Text.  A Rust String is modelled as a sequence of tokens.  Every        *)
(* literal the code writes ("SELECT", " FROM ", ", ", ...) is one token,   *)
(* and every fragment a caller supplies is a sequence of caller tokens     *)
(* ("a", "t", "p", ...), possibly empty.  push_str and format! are \o,     *)
(* is_empty is comparison with << >>.                                      *)
(*                                                                         *)
(* Builders.  A stage value is a record [stage, raw]: the name of the      *)
(* wrapper type and the raw record it wraps.  A method that takes self by  *)
(* value is an operator from the stage value (and the arguments) to the    *)
(* stage value it returns.                                                 *)
(***************************************************************************)
EXTENDS Integers, Sequences, FiniteSets, TLC

VARIABLES
    family,   \* which statement family this behaviour builds
    builder,  \* the live stage value of the chain
    call,     \* the most recent call: [op, arg]
    called,   \* the names of the builder methods called so far
    ncalls,   \* how many builder methods were called so far
    out,      \* the String the most recent call returned, or NoText
    handles,  \* ownership view: every stage value made so far, [stage, rec, live]
    records   \* ownership view: the raw records, by record number

vars == <<family, builder, call, called, ncalls, out, handles, records>>

(***************************************************************************)
(* Bounds and input sets                                                   *)
(***************************************************************************)
\* longest chain of builder calls after the entry function
MaxCalls == 6
\* most stage values made in the ownership view
MaxHandles == 4
\* most and/or calls on one predicate
MaxPreds == 2
\* most ORDER BY keys of one statement
MaxKeys == 2
\* longest chain of calls on a Column, ForeignKey, Table or AlterTable
MaxEdits == 4

\* Option<T>
None == [tag |-> "None"]
Some(v) == [tag |-> "Some", val |-> v]

\* the render result of a call that returns no String
NoText == [tag |-> "NoText"]

\* caller-supplied inputs
SelectFields == { <<>>, << <<"a">>, <<"b">> >> }
Tables == { <<>>, <<"t">> }
\* predicates given to where_ / having, and those given to and / or
Conds == { <<>>, <<"p">> }
MoreConds == { <<"q">>, <<"r">> }
GroupFields == { <<>>, << <<"g">>, <<"h">> >> }
SortFields == { <<"x">>, <<"y">> }
Counts == { None, Some(10) }
Columns == { <<>>, << <<"a">> >>, << <<"a">>, <<"b">> >> }
Values == { <<>>, << <<"1">>, <<"2">> >> }
\* (column, value) pairs given to set
Pairs == { <<>>, << <<<<"a">>, <<"1">>>> >>, << <<<<"a">>, <<"1">>>>, <<<<"b">>, <<"2">>>> >> }

(***************************************************************************)
(* Strings                                                                 *)
(***************************************************************************)
\* [&str]::join(sep)
RECURSIVE join(_, _)
join(list, sep) ==
    IF list = <<>> THEN <<>>
    ELSE IF Len(list) = 1 THEN list[1]
    ELSE list[1] \o sep \o join(Tail(list), sep)

Digits == <<"0", "1", "2", "3", "4", "5", "6", "7", "8", "9">>

\* u32::to_string: the decimal digits, most significant first
RECURSIVE u32_to_string(_)
u32_to_string(v) ==
    IF v < 10 THEN <<Digits[v + 1]>>
    ELSE u32_to_string(v \div 10) \o <<Digits[(v % 10) + 1]>>

Contains(text, tok) == \E i \in 1..Len(text) : text[i] = tok
Count(text, tok) == Cardinality({i \in 1..Len(text) : text[i] = tok})
\* the index of the first occurrence of tok in text (0 if there is none)
IndexOf(text, tok) ==
    LET at == {i \in 1..Len(text) : text[i] = tok}
    IN  IF at = {} THEN 0 ELSE CHOOSE i \in at : \A j \in at : i <= j

(***************************************************************************)
(* SELECT  (src/src/query/select.rs)                                       *)
(***************************************************************************)
SortOrder_fmt(o) == IF o = "Asc" THEN <<"ASC">> ELSE <<"DESC">>

\* SortBy(String, SortOrder) is the pair <<field, order>>
SortBy_fmt(s) == s[1] \o <<" ">> \o SortOrder_fmt(s[2])

RawQuery_new ==
    [ select |-> <<>>, from |-> <<>>, sort_by |-> <<>>, group_by |-> <<>>,
      having |-> <<>>, where_ |-> <<>>, distinct |-> FALSE,
      limit |-> None, offset |-> None ]

Stage(name, raw) == [stage |-> name, raw |-> raw]

select(fields) ==
    Stage("SelectQuery", [RawQuery_new EXCEPT !.select = join(fields, <<", ">>)])

\* mutant: a new sort key is descending
PushSortBy_desc(raw, field) ==
    [raw EXCEPT !.sort_by = Append(@, <<field, "Desc">>)]

PushSortBy(raw, field) ==
    [raw EXCEPT !.sort_by = Append(@, <<field, "Asc">>)]


\* mutant: no value, no clause
CountText_omit(value) ==
    IF value.tag = "Some" THEN Some(u32_to_string(value.val)) ELSE None

CountText(value) ==
    IF value.tag = "Some" THEN Some(u32_to_string(value.val)) ELSE Some(<<"?">>)

SelectQuery_from(self, table) ==
    Stage("SelectQuery", [self.raw EXCEPT !.from = table])

\* mutant: order_by on SelectQuery changes the stage without pushing a key
SelectQuery_order_by_bare(self, field) ==
    Stage("OrderByQuery", self.raw)

SelectQuery_order_by(self, field) ==
    Stage("OrderByQuery", PushSortBy(self.raw, field))

SelectQuery_limit(self, value) ==
    Stage("SelectQuery", [self.raw EXCEPT !.limit = CountText(value)])


\* mutant: distinct() toggles the flag
SelectQuery_distinct_toggle(self) ==
    Stage("SelectQuery", [self.raw EXCEPT !.distinct = ~@])

SelectQuery_distinct(self) ==
    Stage("SelectQuery", [self.raw EXCEPT !.distinct = TRUE])

SelectQuery_offset(self, value) ==
    Stage("SelectQuery", [self.raw EXCEPT !.offset = CountText(value)])

SelectQuery_where_(self, cond) ==
    Stage("WhereQuery", [self.raw EXCEPT !.where_ = cond])

SelectQuery_group_by(self, fields) ==
    Stage("GroupQuery", [self.raw EXCEPT !.group_by = join(fields, <<", ">>)])

WhereQuery_and(self, cond) ==
    Stage("WhereQuery", [self.raw EXCEPT !.where_ = @ \o <<" AND ">> \o cond])

WhereQuery_or(self, cond) ==
    Stage("WhereQuery", [self.raw EXCEPT !.where_ = @ \o <<" OR ">> \o cond])

WhereQuery_order_by(self, field) ==
    Stage("OrderByQuery", PushSortBy(self.raw, field))

\* mutant: group_by after WHERE starts from an empty predicate
WhereQuery_group_by_fresh(self, fields) ==
    Stage("GroupQuery",
          [self.raw EXCEPT !.group_by = join(fields, <<", ">>), !.where_ = <<>>])

WhereQuery_group_by(self, fields) ==
    Stage("GroupQuery", [self.raw EXCEPT !.group_by = join(fields, <<", ">>)])


\* mutant: first_mut() instead of last_mut()
SetLastOrder_first(raw, order) ==
    IF Len(raw.sort_by) > 0
    THEN [raw EXCEPT !.sort_by[1][2] = order]
    ELSE raw

\* if let Some(value) = self.0.sort_by.last_mut() { value.1 = order }
SetLastOrder(raw, order) ==
    IF Len(raw.sort_by) > 0
    THEN [raw EXCEPT !.sort_by[Len(raw.sort_by)][2] = order]
    ELSE raw

OrderByQuery_asc(self) == Stage("OrderByQuery", SetLastOrder(self.raw, "Asc"))

OrderByQuery_desc(self) == Stage("OrderByQuery", SetLastOrder(self.raw, "Desc"))

OrderByQuery_order_by(self, field) ==
    Stage("OrderByQuery", PushSortBy(self.raw, field))

GroupQuery_order_by(self, field) ==
    Stage("OrderByQuery", PushSortBy(self.raw, field))


\* mutant: having hands back the WHERE stage
GroupQuery_having_relapse(self, cond) ==
    Stage("WhereQuery", [self.raw EXCEPT !.having = cond])

GroupQuery_having(self, cond) ==
    Stage("HavingQuery", [self.raw EXCEPT !.having = cond])

HavingQuery_and(self, cond) ==
    Stage("HavingQuery", [self.raw EXCEPT !.having = @ \o <<" AND ">> \o cond])

HavingQuery_or(self, cond) ==
    Stage("HavingQuery", [self.raw EXCEPT !.having = @ \o <<" OR ">> \o cond])

HavingQuery_order_by(self, field) ==
    Stage("OrderByQuery", PushSortBy(self.raw, field))


\* mutant: OFFSET is written before LIMIT
RawQuery_fmt_offset_first(self) ==
    <<"SELECT">>
    \o (IF self.distinct THEN <<" DISTINCT">> ELSE <<>>)
    \o <<" ">> \o self.select
    \o <<" FROM ">> \o self.from
    \o (IF self.where_ # <<>> THEN <<" WHERE ">> \o self.where_ ELSE <<>>)
    \o (IF self.group_by # <<>> THEN <<" GROUP BY ">> \o self.group_by ELSE <<>>)
    \o (IF self.having # <<>> THEN <<" HAVING ">> \o self.having ELSE <<>>)
    \o (IF self.sort_by # <<>>
        THEN <<" ORDER BY ">>
             \o join([i \in 1..Len(self.sort_by) |-> SortBy_fmt(self.sort_by[i])],
                     <<", ">>)
        ELSE <<>>)
    \o (IF self.offset.tag = "Some" THEN <<" OFFSET ">> \o self.offset.val ELSE <<>>)
    \o (IF self.limit.tag = "Some" THEN <<" LIMIT ">> \o self.limit.val ELSE <<>>)

\* impl fmt::Display for RawQuery
RawQuery_fmt(self) ==
    <<"SELECT">>
    \o (IF self.distinct THEN <<" DISTINCT">> ELSE <<>>)
    \o <<" ">> \o self.select
    \o <<" FROM ">> \o self.from
    \o (IF self.where_ # <<>> THEN <<" WHERE ">> \o self.where_ ELSE <<>>)
    \o (IF self.group_by # <<>> THEN <<" GROUP BY ">> \o self.group_by ELSE <<>>)
    \o (IF self.having # <<>> THEN <<" HAVING ">> \o self.having ELSE <<>>)
    \o (IF self.sort_by # <<>>
        THEN <<" ORDER BY ">>
             \o join([i \in 1..Len(self.sort_by) |-> SortBy_fmt(self.sort_by[i])],
                     <<", ">>)
        ELSE <<>>)
    \o (IF self.limit.tag = "Some" THEN <<" LIMIT ">> \o self.limit.val ELSE <<>>)
    \o (IF self.offset.tag = "Some" THEN <<" OFFSET ">> \o self.offset.val ELSE <<>>)

\* implement_display_for!: the stage types that can be rendered
SelectStages ==
    {"SelectQuery", "WhereQuery", "GroupQuery", "HavingQuery", "OrderByQuery"}

\* mutant: the ORDER BY stage renders without LIMIT
StageQuery_fmt_by_stage(self) ==
    IF self.stage = "OrderByQuery"
    THEN RawQuery_fmt([self.raw EXCEPT !.limit = None])
    ELSE RawQuery_fmt(self.raw)

\* implement_display_for!($t): self.0.fmt(f)
StageQuery_fmt(self) == RawQuery_fmt(self.raw)

(***************************************************************************)
(* The SELECT chain as a state machine                                     *)
(***************************************************************************)
\* a builder method was called on the live stage and returned `next`
Chain(op, arg, next) ==
    /\ ncalls < MaxCalls
    /\ builder' = next
    /\ call' = [op |-> op, arg |-> arg]
    /\ called' = called \cup {op}
    /\ ncalls' = ncalls + 1
    /\ out' = NoText
    /\ UNCHANGED <<family, handles, records>>

\* to_string(&self) on the live stage returned `text`
Render(text) ==
    /\ out' = text
    /\ call' = [op |-> "to_string", arg |-> <<>>]
    /\ UNCHANGED <<family, builder, called, ncalls, handles, records>>

\* the single-chain specifications do not use the ownership view
NoHandles == handles = <<>> /\ records = <<>>

On(fam, stage) == family = fam /\ builder.stage = stage

\* the and/or calls a predicate has taken
Connectives(pred) == Count(pred, " AND ") + Count(pred, " OR ")

InitSelect ==
    /\ family = "select"
    /\ \E fields \in SelectFields :
           /\ builder = select(fields)
           /\ call = [op |-> "select", arg |-> fields]
    /\ called = {}
    /\ ncalls = 0
    /\ out = NoText
    /\ NoHandles

SelectFrom ==
    /\ On("select", "SelectQuery")
    /\ \E table \in Tables : Chain("from", table, SelectQuery_from(builder, table))

SelectOrderBy ==
    /\ On("select", "SelectQuery")
    /\ Len(builder.raw.sort_by) < MaxKeys
    /\ \E f \in SortFields : Chain("order_by", f, SelectQuery_order_by(builder, f))

SelectLimit ==
    /\ On("select", "SelectQuery")
    /\ \E v \in Counts : Chain("limit", v, SelectQuery_limit(builder, v))

SelectDistinct ==
    /\ On("select", "SelectQuery")
    /\ Chain("distinct", <<>>, SelectQuery_distinct(builder))

SelectOffset ==
    /\ On("select", "SelectQuery")
    /\ \E v \in Counts : Chain("offset", v, SelectQuery_offset(builder, v))

SelectWhere ==
    /\ On("select", "SelectQuery")
    /\ \E c \in Conds : Chain("where_", c, SelectQuery_where_(builder, c))

SelectGroupBy ==
    /\ On("select", "SelectQuery")
    /\ \E fs \in GroupFields : Chain("group_by", fs, SelectQuery_group_by(builder, fs))

WhereAnd ==
    /\ On("select", "WhereQuery")
    /\ Connectives(builder.raw.where_) < MaxPreds
    /\ \E c \in MoreConds : Chain("and", c, WhereQuery_and(builder, c))

WhereOr ==
    /\ On("select", "WhereQuery")
    /\ Connectives(builder.raw.where_) < MaxPreds
    /\ \E c \in MoreConds : Chain("or", c, WhereQuery_or(builder, c))

WhereOrderBy ==
    /\ On("select", "WhereQuery")
    /\ Len(builder.raw.sort_by) < MaxKeys
    /\ \E f \in SortFields : Chain("order_by", f, WhereQuery_order_by(builder, f))

WhereGroupBy ==
    /\ On("select", "WhereQuery")
    /\ \E fs \in GroupFields : Chain("group_by", fs, WhereQuery_group_by(builder, fs))

OrderByAsc ==
    /\ On("select", "OrderByQuery")
    /\ Chain("asc", <<>>, OrderByQuery_asc(builder))

OrderByDesc ==
    /\ On("select", "OrderByQuery")
    /\ Chain("desc", <<>>, OrderByQuery_desc(builder))

OrderByOrderBy ==
    /\ On("select", "OrderByQuery")
    /\ Len(builder.raw.sort_by) < MaxKeys
    /\ \E f \in SortFields : Chain("order_by", f, OrderByQuery_order_by(builder, f))

GroupOrderBy ==
    /\ On("select", "GroupQuery")
    /\ Len(builder.raw.sort_by) < MaxKeys
    /\ \E f \in SortFields : Chain("order_by", f, GroupQuery_order_by(builder, f))

GroupHaving ==
    /\ On("select", "GroupQuery")
    /\ \E c \in Conds : Chain("having", c, GroupQuery_having(builder, c))

HavingAnd ==
    /\ On("select", "HavingQuery")
    /\ Connectives(builder.raw.having) < MaxPreds
    /\ \E c \in MoreConds : Chain("and", c, HavingQuery_and(builder, c))

HavingOr ==
    /\ On("select", "HavingQuery")
    /\ Connectives(builder.raw.having) < MaxPreds
    /\ \E c \in MoreConds : Chain("or", c, HavingQuery_or(builder, c))

HavingOrderBy ==
    /\ On("select", "HavingQuery")
    /\ Len(builder.raw.sort_by) < MaxKeys
    /\ \E f \in SortFields : Chain("order_by", f, HavingQuery_order_by(builder, f))

SelectToString ==
    /\ family = "select"
    /\ builder.stage \in SelectStages
    /\ Render(StageQuery_fmt(builder))

NextSelect ==
    \/ SelectFrom \/ SelectOrderBy \/ SelectLimit \/ SelectDistinct
    \/ SelectOffset \/ SelectWhere \/ SelectGroupBy
    \/ WhereAnd \/ WhereOr \/ WhereOrderBy \/ WhereGroupBy
    \/ OrderByAsc \/ OrderByDesc \/ OrderByOrderBy
    \/ GroupOrderBy \/ GroupHaving
    \/ HavingAnd \/ HavingOr \/ HavingOrderBy
    \/ SelectToString

SpecSelect == InitSelect /\ [][NextSelect]_vars

(***************************************************************************)
(* INSERT  (src/src/query/insert.rs)                                       *)
(***************************************************************************)
\* #[derive(Default)] struct RawInsert
RawInsert_default == [table |-> <<>>, columns |-> <<>>, values |-> <<>>]

insert(columns) ==
    Stage("Insert", [RawInsert_default EXCEPT !.columns = join(columns, <<", ">>)])

Insert_into(self, table) ==
    Stage("InsertInto", [self.raw EXCEPT !.table = table])

\* mutant: values rejects an empty list instead of returning the statement
InsertInto_values_nonempty(self, values) ==
    IF values = <<>> THEN Stage("Panicked", self.raw)
    ELSE Stage("FinalInsert", [self.raw EXCEPT !.values = join(values, <<", ">>)])

InsertInto_values(self, values) ==
    Stage("FinalInsert", [self.raw EXCEPT !.values = join(values, <<", ">>)])

\* mutant: the column parentheses are left out for an empty column list
RawInsert_fmt_skip_empty(self) ==
    <<"INSERT INTO ">> \o self.table
    \o (IF self.columns = <<>> THEN <<>>
        ELSE <<"(">> \o self.columns \o <<")">>)
    \o <<" VALUES(">> \o self.values \o <<")">>

\* impl fmt::Display for RawInsert
RawInsert_fmt(self) ==
    <<"INSERT INTO ">> \o self.table \o <<"(">> \o self.columns
    \o <<") VALUES(">> \o self.values \o <<")">>

InitInsert ==
    /\ family = "insert"
    /\ \E columns \in Columns :
           /\ builder = insert(columns)
           /\ call = [op |-> "insert", arg |-> columns]
    /\ called = {}
    /\ ncalls = 0
    /\ out = NoText
    /\ NoHandles

InsertInto ==
    /\ On("insert", "Insert")
    /\ \E table \in Tables : Chain("into", table, Insert_into(builder, table))

InsertValues ==
    /\ On("insert", "InsertInto")
    /\ \E values \in Values : Chain("values", values, InsertInto_values(builder, values))

\* mutant: an INSERT renders before values was applied
InsertToString_early ==
    /\ family = "insert"
    /\ builder.stage \in {"InsertInto", "FinalInsert"}
    /\ Render(RawInsert_fmt(builder.raw))

\* impl fmt::Display for FinalInsert
InsertToString ==
    /\ On("insert", "FinalInsert")
    /\ Render(RawInsert_fmt(builder.raw))

NextInsert == InsertInto \/ InsertValues \/ InsertToString

(***************************************************************************)
(* UPDATE  (src/src/query/update.rs)                                       *)
(***************************************************************************)
\* #[derive(Default)] struct RawUpdate
RawUpdate_default == [table |-> <<>>, data |-> <<>>, where_ |-> <<>>]

update(table) == Stage("Update", [RawUpdate_default EXCEPT !.table = table])

Update_set(self, data) ==
    Stage("UpdateSet",
          [self.raw EXCEPT !.data =
              join([i \in 1..Len(data) |-> data[i][1] \o <<" = ">> \o data[i][2]],
                   <<", ">>)])

UpdateSet_where_(self, cond) ==
    Stage("UpdateWhere", [self.raw EXCEPT !.where_ = cond])

\* mutant: and() parenthesizes what came before
UpdateWhere_and_grouped(self, cond) ==
    Stage("UpdateWhere",
          [self.raw EXCEPT !.where_ = <<"(">> \o @ \o <<")">> \o <<" AND ">> \o cond])

UpdateWhere_and(self, cond) ==
    Stage("UpdateWhere", [self.raw EXCEPT !.where_ = @ \o <<" AND ">> \o cond])

UpdateWhere_or(self, cond) ==
    Stage("UpdateWhere", [self.raw EXCEPT !.where_ = @ \o <<" OR ">> \o cond])

\* impl fmt::Display for RawUpdate
RawUpdate_fmt(self) ==
    <<"UPDATE ">> \o self.table \o <<" SET ">> \o self.data
    \o (IF Len(self.where_) > 0 THEN <<" WHERE ">> \o self.where_ ELSE <<>>)

InitUpdate ==
    /\ family = "update"
    /\ \E table \in Tables :
           /\ builder = update(table)
           /\ call = [op |-> "update", arg |-> table]
    /\ called = {}
    /\ ncalls = 0
    /\ out = NoText
    /\ NoHandles

UpdateSet ==
    /\ On("update", "Update")
    /\ \E data \in Pairs : Chain("set", data, Update_set(builder, data))

UpdateWhere ==
    /\ On("update", "UpdateSet")
    /\ \E c \in Conds : Chain("where_", c, UpdateSet_where_(builder, c))

UpdateAnd ==
    /\ On("update", "UpdateWhere")
    /\ Connectives(builder.raw.where_) < MaxPreds
    /\ \E c \in MoreConds : Chain("and", c, UpdateWhere_and(builder, c))

UpdateOr ==
    /\ On("update", "UpdateWhere")
    /\ Connectives(builder.raw.where_) < MaxPreds
    /\ \E c \in MoreConds : Chain("or", c, UpdateWhere_or(builder, c))

\* impl fmt::Display for UpdateSet, impl fmt::Display for UpdateWhere
UpdateToString ==
    /\ family = "update"
    /\ builder.stage \in {"UpdateSet", "UpdateWhere"}
    /\ Render(RawUpdate_fmt(builder.raw))

NextUpdate == UpdateSet \/ UpdateWhere \/ UpdateAnd \/ UpdateOr \/ UpdateToString

(***************************************************************************)
(* DELETE  (src/src/query/delete.rs)                                       *)
(***************************************************************************)
\* #[derive(Default)] struct RawDelete
RawDelete_default == [table |-> <<>>, where_ |-> <<>>]

delete_from(table) == Stage("DeleteFrom", [RawDelete_default EXCEPT !.table = table])

\* mutant: where_ wraps the predicate in parentheses
DeleteFrom_where_wrapped(self, cond) ==
    Stage("DeleteWhere", [self.raw EXCEPT !.where_ = <<"(">> \o cond \o <<")">>])

DeleteFrom_where_(self, cond) ==
    Stage("DeleteWhere", [self.raw EXCEPT !.where_ = cond])

DeleteWhere_and(self, cond) ==
    Stage("DeleteWhere", [self.raw EXCEPT !.where_ = @ \o <<" AND ">> \o cond])

DeleteWhere_or(self, cond) ==
    Stage("DeleteWhere", [self.raw EXCEPT !.where_ = @ \o <<" OR ">> \o cond])

\* impl fmt::Display for RawDelete
RawDelete_fmt(self) ==
    <<"DELETE FROM ">> \o self.table
    \o (IF self.where_ # <<>> THEN <<" WHERE ">> \o self.where_ ELSE <<>>)

InitDelete ==
    /\ family = "delete"
    /\ \E table \in Tables :
           /\ builder = delete_from(table)
           /\ call = [op |-> "delete_from", arg |-> table]
    /\ called = {}
    /\ ncalls = 0
    /\ out = NoText
    /\ NoHandles

DeleteWhere ==
    /\ On("delete", "DeleteFrom")
    /\ \E c \in Conds : Chain("where_", c, DeleteFrom_where_(builder, c))

DeleteAnd ==
    /\ On("delete", "DeleteWhere")
    /\ Connectives(builder.raw.where_) < MaxPreds
    /\ \E c \in MoreConds : Chain("and", c, DeleteWhere_and(builder, c))

DeleteOr ==
    /\ On("delete", "DeleteWhere")
    /\ Connectives(builder.raw.where_) < MaxPreds
    /\ \E c \in MoreConds : Chain("or", c, DeleteWhere_or(builder, c))

\* impl fmt::Display for DeleteFrom, impl fmt::Display for DeleteWhere
DeleteToString ==
    /\ family = "delete"
    /\ builder.stage \in {"DeleteFrom", "DeleteWhere"}
    /\ Render(RawDelete_fmt(builder.raw))

NextDelete == DeleteWhere \/ DeleteAnd \/ DeleteOr \/ DeleteToString

(***************************************************************************)
(* The query builders together                                             *)
(***************************************************************************)
InitQuery == InitSelect \/ InitInsert \/ InitUpdate \/ InitDelete

NextQuery == NextSelect \/ NextInsert \/ NextUpdate \/ NextDelete

SpecQuery == InitQuery /\ [][NextQuery]_vars

(***************************************************************************)
(* Ownership of the query builders' stage values                           *)
(*                                                                         *)
(* Every stage value made so far is a handle [stage, rec, live] on the     *)
(* raw record numbered rec.  A method taking self by value moves the       *)
(* record out of the handle it is called on (live becomes FALSE) into the  *)
(* handle it returns; #[derive(Clone)] copies the record; fmt borrows.     *)
(* Only a live handle can be used: the compiler rejects a use after move.  *)
(***************************************************************************)
\* every call the stage type of self offers, with every input:
\* [op, next] where next is the stage value the call returns
Calls(self) ==
    CASE self.stage = "SelectQuery" ->
             {[op |-> "from", next |-> SelectQuery_from(self, t)] : t \in Tables}
             \cup {[op |-> "order_by", next |-> SelectQuery_order_by(self, f)] : f \in SortFields}
             \cup {[op |-> "limit", next |-> SelectQuery_limit(self, v)] : v \in Counts}
             \cup {[op |-> "distinct", next |-> SelectQuery_distinct(self)]}
             \cup {[op |-> "offset", next |-> SelectQuery_offset(self, v)] : v \in Counts}
             \cup {[op |-> "where_", next |-> SelectQuery_where_(self, c)] : c \in Conds}
             \cup {[op |-> "group_by", next |-> SelectQuery_group_by(self, fs)] : fs \in GroupFields}
      [] self.stage = "WhereQuery" ->
             {[op |-> "and", next |-> WhereQuery_and(self, c)] : c \in MoreConds}
             \cup {[op |-> "or", next |-> WhereQuery_or(self, c)] : c \in MoreConds}
             \cup {[op |-> "order_by", next |-> WhereQuery_order_by(self, f)] : f \in SortFields}
             \cup {[op |-> "group_by", next |-> WhereQuery_group_by(self, fs)] : fs \in GroupFields}
      [] self.stage = "OrderByQuery" ->
             {[op |-> "asc", next |-> OrderByQuery_asc(self)],
              [op |-> "desc", next |-> OrderByQuery_desc(self)]}
             \cup {[op |-> "order_by", next |-> OrderByQuery_order_by(self, f)] : f \in SortFields}
      [] self.stage = "GroupQuery" ->
             {[op |-> "order_by", next |-> GroupQuery_order_by(self, f)] : f \in SortFields}
             \cup {[op |-> "having", next |-> GroupQuery_having(self, c)] : c \in Conds}
      [] self.stage = "HavingQuery" ->
             {[op |-> "and", next |-> HavingQuery_and(self, c)] : c \in MoreConds}
             \cup {[op |-> "or", next |-> HavingQuery_or(self, c)] : c \in MoreConds}
             \cup {[op |-> "order_by", next |-> HavingQuery_order_by(self, f)] : f \in SortFields}
      [] self.stage = "Insert" ->
             {[op |-> "into", next |-> Insert_into(self, t)] : t \in Tables}
      [] self.stage = "InsertInto" ->
             {[op |-> "values", next |-> InsertInto_values(self, v)] : v \in Values}
      [] self.stage = "Update" ->
             {[op |-> "set", next |-> Update_set(self, d)] : d \in Pairs}
      [] self.stage = "UpdateSet" ->
             {[op |-> "where_", next |-> UpdateSet_where_(self, c)] : c \in Conds}
      [] self.stage = "UpdateWhere" ->
             {[op |-> "and", next |-> UpdateWhere_and(self, c)] : c \in MoreConds}
             \cup {[op |-> "or", next |-> UpdateWhere_or(self, c)] : c \in MoreConds}
      [] self.stage = "DeleteFrom" ->
             {[op |-> "where_", next |-> DeleteFrom_where_(self, c)] : c \in Conds}
      [] self.stage = "DeleteWhere" ->
             {[op |-> "and", next |-> DeleteWhere_and(self, c)] : c \in MoreConds}
             \cup {[op |-> "or", next |-> DeleteWhere_or(self, c)] : c \in MoreConds}
      [] OTHER -> {}

\* the stage types with a fmt::Display impl
DisplayStages ==
    SelectStages \cup {"FinalInsert", "UpdateSet", "UpdateWhere", "DeleteFrom", "DeleteWhere"}

\* what to_string returns for a stage value
Displayed(self) ==
    CASE self.stage \in SelectStages -> StageQuery_fmt(self)
      [] self.stage = "FinalInsert" -> RawInsert_fmt(self.raw)
      [] self.stage \in {"UpdateSet", "UpdateWhere"} -> RawUpdate_fmt(self.raw)
      [] self.stage \in {"DeleteFrom", "DeleteWhere"} -> RawDelete_fmt(self.raw)
      [] OTHER -> NoText

\* the stage value behind handle h
Deref(h) == Stage(h.stage, records[h.rec])

\* mutant: the method borrows self and leaves the handle usable
MoveInto_borrowed(hs, i, stage) ==
    Append(hs, [stage |-> stage, rec |-> hs[i].rec, live |-> TRUE])

\* fn m(mut self, ...) -> Next: handle i is moved from, the handle returned
\* holds the same record
MoveInto(hs, i, stage) ==
    Append([hs EXCEPT ![i].live = FALSE],
           [stage |-> stage, rec |-> hs[i].rec, live |-> TRUE])

\* #[derive(Clone)]: clone(&self) copies every field into a new record
CloneRecord(hs, recs, i) ==
    [handles |-> Append(hs, [stage |-> hs[i].stage, rec |-> Len(recs) + 1,
                               live |-> TRUE]),
     records |-> Append(recs, recs[hs[i].rec])]

InitOwn ==
    /\ family = "own"
    /\ \E first \in {select(fs) : fs \in SelectFields}
                    \cup {insert(cs) : cs \in Columns}
                    \cup {update(t) : t \in Tables}
                    \cup {delete_from(t) : t \in Tables} :
           /\ handles = <<[stage |-> first.stage, rec |-> 1, live |-> TRUE]>>
           /\ records = <<first.raw>>
    /\ builder = NoText
    /\ call = [op |-> "new", arg |-> <<>>, on |-> 0]
    /\ called = {}
    /\ ncalls = 0
    /\ out = NoText

OwnCall ==
    /\ family = "own"
    /\ Len(handles) < MaxHandles
    /\ \E i \in DOMAIN handles :
           /\ handles[i].live
           /\ \E c \in Calls(Deref(handles[i])) :
                  /\ handles' = MoveInto(handles, i, c.next.stage)
                  /\ records' = [records EXCEPT ![handles[i].rec] = c.next.raw]
                  /\ call' = [op |-> c.op, arg |-> <<>>, on |-> i]
    /\ out' = NoText
    /\ UNCHANGED <<family, builder, called, ncalls>>

OwnClone ==
    /\ family = "own"
    /\ Len(handles) < MaxHandles
    /\ \E i \in DOMAIN handles :
           /\ handles[i].live
           /\ handles[i].stage \in SelectStages
           /\ LET copy == CloneRecord(handles, records, i)
              IN  handles' = copy.handles /\ records' = copy.records
           /\ call' = [op |-> "clone", arg |-> <<>>, on |-> i]
    /\ out' = NoText
    /\ UNCHANGED <<family, builder, called, ncalls>>

OwnToString ==
    /\ family = "own"
    /\ \E i \in DOMAIN handles :
           /\ handles[i].live
           /\ handles[i].stage \in DisplayStages
           /\ out' = Displayed(Deref(handles[i]))
           /\ call' = [op |-> "to_string", arg |-> <<>>, on |-> i]
    /\ UNCHANGED <<family, builder, called, ncalls, handles, records>>

NextOwn == OwnCall \/ OwnClone \/ OwnToString

SpecOwn == InitOwn /\ [][NextOwn]_vars

(***************************************************************************)
(* Nested statements  (tests delete_with_subquery, sub_query)              *)
(*                                                                         *)
(* The caller builds an inner SELECT (handles[1], records[1]) next to an   *)
(* outer statement (builder), and passes format!("c IN ({})", inner) as a  *)
(* predicate fragment of the outer statement.  format! borrows the inner   *)
(* value, which stays usable.                                              *)
(***************************************************************************)
InitNested ==
    /\ family = "nested"
    /\ \E outer \in {delete_from(<<"t">>), select(<< <<"a">>, <<"b">> >>),
                     SelectQuery_group_by(select(<< <<"a">>, <<"b">> >>),
                                          << <<"g">>, <<"h">> >>),
                     Update_set(update(<<"t">>), << <<<<"a">>, <<"1">>>> >>)} :
           builder = outer
    /\ \E fs \in SelectFields :
           /\ handles = <<[stage |-> select(fs).stage, rec |-> 1, live |-> TRUE]>>
           /\ records = <<select(fs).raw>>
    /\ call = [op |-> "new", arg |-> <<>>, on |-> 0]
    /\ called = {}
    /\ ncalls = 0
    /\ out = NoText

\* a builder call on the inner SELECT
NestedInner ==
    /\ family = "nested"
    /\ ncalls < MaxEdits
    /\ \E c \in Calls(Deref(handles[1])) :
           /\ handles' = <<[handles[1] EXCEPT !.stage = c.next.stage]>>
           /\ records' = <<c.next.raw>>
           /\ call' = [op |-> c.op, arg |-> <<>>, on |-> 1]
    /\ ncalls' = ncalls + 1
    /\ out' = NoText
    /\ UNCHANGED <<family, builder, called>>

\* outer.where_(&format!("c IN ({})", inner)), and the same fragment given
\* to having, and, or
NestedPredicate ==
    /\ family = "nested"
    /\ ncalls < MaxEdits
    /\ LET cond == <<"c IN (">> \o Displayed(Deref(handles[1])) \o <<")">>
       IN  \E c \in
               CASE builder.stage = "DeleteFrom" ->
                        {[op |-> "where_", next |-> DeleteFrom_where_(builder, cond)]}
                 [] builder.stage = "DeleteWhere" ->
                        {[op |-> "and", next |-> DeleteWhere_and(builder, cond)],
                         [op |-> "or", next |-> DeleteWhere_or(builder, cond)]}
                 [] builder.stage = "UpdateSet" ->
                        {[op |-> "where_", next |-> UpdateSet_where_(builder, cond)]}
                 [] builder.stage = "UpdateWhere" ->
                        {[op |-> "and", next |-> UpdateWhere_and(builder, cond)],
                         [op |-> "or", next |-> UpdateWhere_or(builder, cond)]}
                 [] builder.stage = "SelectQuery" ->
                        {[op |-> "where_", next |-> SelectQuery_where_(builder, cond)]}
                 [] builder.stage = "WhereQuery" ->
                        {[op |-> "and", next |-> WhereQuery_and(builder, cond)],
                         [op |-> "or", next |-> WhereQuery_or(builder, cond)]}
                 [] builder.stage = "GroupQuery" ->
                        {[op |-> "having", next |-> GroupQuery_having(builder, cond)]}
                 [] builder.stage = "HavingQuery" ->
                        {[op |-> "and", next |-> HavingQuery_and(builder, cond)],
                         [op |-> "or", next |-> HavingQuery_or(builder, cond)]}
                 [] OTHER -> {} :
               /\ builder' = c.next
               /\ call' = [op |-> c.op, arg |-> cond, on |-> 0]
               /\ called' = called \cup {c.op}
    /\ ncalls' = ncalls + 1
    /\ out' = NoText
    /\ UNCHANGED <<family, handles, records>>

\* outer.to_string()
NestedToString ==
    /\ family = "nested"
    /\ builder.stage \in DisplayStages
    /\ out' = Displayed(builder)
    /\ call' = [op |-> "to_string", arg |-> <<>>, on |-> 0]
    /\ UNCHANGED <<family, builder, called, ncalls, handles, records>>

NextNested == NestedInner \/ NestedPredicate \/ NestedToString

SpecNested == InitNested /\ [][NextNested]_vars

(***************************************************************************)
(* The WHERE / GROUP BY / HAVING chain of test where_group_by_having_query *)
(*                                                                         *)
(* select(..).from(..).where_(..).and(..).group_by(..).having(..)          *)
(* .order_by(..): the calls in this order, each input drawn from two       *)
(* literals.                                                               *)
(***************************************************************************)
InitScenario ==
    /\ family = "scenario"
    /\ \E fields \in { << <<"a">>, <<"b">> >>, << <<"a">> >> } :
           /\ builder = select(fields)
           /\ call = [op |-> "select", arg |-> fields]
    /\ called = {}
    /\ ncalls = 0
    /\ out = NoText
    /\ NoHandles

\* the next call of the chain on the live stage
ScenarioCall ==
    /\ family = "scenario"
    /\ \E c \in
           CASE builder.stage = "SelectQuery" /\ "from" \notin called ->
                    {[op |-> "from", arg |-> t, next |-> SelectQuery_from(builder, t)] :
                        t \in {<<"t">>, <<"u">>}}
             [] builder.stage = "SelectQuery" /\ "from" \in called ->
                    {[op |-> "where_", arg |-> p, next |-> SelectQuery_where_(builder, p)] :
                        p \in {<<"a=1">>, <<"a=2">>}}
             [] builder.stage = "WhereQuery" /\ "and" \notin called ->
                    {[op |-> "and", arg |-> p, next |-> WhereQuery_and(builder, p)] :
                        p \in {<<"b=2">>, <<"b=3">>}}
             [] builder.stage = "WhereQuery" /\ "and" \in called ->
                    {[op |-> "group_by", arg |-> fs,
                      next |-> WhereQuery_group_by(builder, fs)] :
                        fs \in { << <<"a">> >>, << <<"a">>, <<"b">> >> }}
             [] builder.stage = "GroupQuery" ->
                    {[op |-> "having", arg |-> p, next |-> GroupQuery_having(builder, p)] :
                        p \in {<<"count>1">>, <<"count>2">>}}
             [] builder.stage = "HavingQuery" ->
                    {[op |-> "order_by", arg |-> f,
                      next |-> HavingQuery_order_by(builder, f)] :
                        f \in {<<"a">>, <<"b">>}}
             [] OTHER -> {} :
           Chain(c.op, c.arg, c.next)

ScenarioToString ==
    /\ family = "scenario"
    /\ Render(StageQuery_fmt(builder))

NextScenario == ScenarioCall \/ ScenarioToString

SpecScenario == InitScenario /\ [][NextScenario]_vars

(***************************************************************************)
(* The schema builders  (src/src/schema)                                   *)
(*                                                                         *)
(* Column, ForeignKey, Table and AlterTable are plain structs: the stage   *)
(* value [stage, raw] carries the struct's name and its fields.  A method  *)
(* fn m(mut self, ..) -> Self or fn m(&mut self, ..) -> &mut Self is an    *)
(* action that replaces the builder by the updated struct.                 *)
(***************************************************************************)
\* a call on a schema builder whose methods all return Self
Edit(op, arg, next) == ncalls < MaxEdits /\ Chain(op, arg, next)

(***************************************************************************)
(* Column  (src/src/schema/column.rs)                                      *)
(***************************************************************************)
\* impl fmt::Display for GeneratedColumnType
GeneratedColumnType_fmt(t) == IF t = "Stored" THEN <<"STORED">> ELSE <<"VIRTUAL">>

Column_new(name) ==
    Stage("Column",
          [ name |-> name, typ_ |-> <<"INTEGER">>, not_null |-> TRUE,
            unique |-> FALSE, primary_key |-> FALSE, check |-> None,
            default_val |-> None, generated |-> None ])

\* mutant: the CHECK clause is written before the DEFAULT clause
Column_fmt_check_first(self) ==
    self.name \o <<" ">> \o self.typ_
    \o (IF self.not_null THEN <<" NOT NULL">> ELSE <<>>)
    \o (IF self.unique THEN <<" UNIQUE">> ELSE <<>>)
    \o (IF self.primary_key THEN <<" PRIMARY KEY">> ELSE <<>>)
    \o (IF self.check.tag = "Some"
        THEN <<" CHECK(">> \o self.check.val \o <<")">> ELSE <<>>)
    \o (IF self.default_val.tag = "Some"
        THEN <<" DEFAULT ">> \o self.default_val.val ELSE <<>>)
    \o (IF self.generated.tag = "Some"
        THEN <<" AS (">> \o self.generated.val.expr \o <<") ">>
             \o GeneratedColumnType_fmt(self.generated.val.type_)
        ELSE <<>>)

\* impl fmt::Display for Column
Column_fmt(self) ==
    self.name \o <<" ">> \o self.typ_
    \o (IF self.not_null THEN <<" NOT NULL">> ELSE <<>>)
    \o (IF self.unique THEN <<" UNIQUE">> ELSE <<>>)
    \o (IF self.primary_key THEN <<" PRIMARY KEY">> ELSE <<>>)
    \o (IF self.default_val.tag = "Some"
        THEN <<" DEFAULT ">> \o self.default_val.val ELSE <<>>)
    \o (IF self.check.tag = "Some"
        THEN <<" CHECK(">> \o self.check.val \o <<")">> ELSE <<>>)
    \o (IF self.generated.tag = "Some"
        THEN <<" AS (">> \o self.generated.val.expr \o <<") ">>
             \o GeneratedColumnType_fmt(self.generated.val.type_)
        ELSE <<>>)

InitColumn ==
    /\ family = "column"
    /\ \E name \in Tables :
           /\ builder = Column_new(name)
           /\ call = [op |-> "new", arg |-> name]
    /\ called = {}
    /\ ncalls = 0
    /\ out = NoText
    /\ NoHandles

ColumnInt ==
    /\ On("column", "Column")
    /\ Edit("int", <<>>, [builder EXCEPT !.raw.typ_ = <<"INTEGER">>])

ColumnReal ==
    /\ On("column", "Column")
    /\ Edit("real", <<>>, [builder EXCEPT !.raw.typ_ = <<"REAL">>])

ColumnText ==
    /\ On("column", "Column")
    /\ Edit("text", <<>>, [builder EXCEPT !.raw.typ_ = <<"TEXT">>])

ColumnBlob ==
    /\ On("column", "Column")
    /\ Edit("blob", <<>>, [builder EXCEPT !.raw.typ_ = <<"BLOB">>])

\* mutant: nullable forgets to clear unique
ColumnNullable_keeps_unique ==
    /\ On("column", "Column")
    /\ Edit("nullable", <<>>,
            [builder EXCEPT !.raw.not_null = FALSE, !.raw.primary_key = FALSE])

ColumnNullable ==
    /\ On("column", "Column")
    /\ Edit("nullable", <<>>,
            [builder EXCEPT !.raw.not_null = FALSE, !.raw.primary_key = FALSE,
                            !.raw.unique = FALSE])

ColumnUnique ==
    /\ On("column", "Column")
    /\ Edit("unique", <<>>,
            [builder EXCEPT !.raw.not_null = TRUE, !.raw.unique = TRUE])

ColumnPrimaryKey ==
    /\ On("column", "Column")
    /\ Edit("primary_key", <<>>,
            [builder EXCEPT !.raw.not_null = TRUE, !.raw.primary_key = TRUE])

ColumnCheck ==
    /\ On("column", "Column")
    /\ \E constraint \in Conds :
           Edit("check", constraint, [builder EXCEPT !.raw.check = Some(constraint)])

ColumnDefaultValue ==
    /\ On("column", "Column")
    /\ \E value \in Conds :
           Edit("default_value", value,
                [builder EXCEPT !.raw.default_val = Some(value)])

\* mutant: generated leaves the default value in place
ColumnGenerated_keeps_default ==
    /\ On("column", "Column")
    /\ \E expr \in Conds, typ \in {"Virtual", "Stored"} :
           Edit("generated", <<expr, typ>>,
                [builder EXCEPT
                    !.raw.generated = Some([expr |-> expr, type_ |-> typ]),
                    !.raw.primary_key = FALSE])

ColumnGenerated ==
    /\ On("column", "Column")
    /\ \E expr \in Conds, typ \in {"Virtual", "Stored"} :
           Edit("generated", <<expr, typ>>,
                [builder EXCEPT
                    !.raw.generated = Some([expr |-> expr, type_ |-> typ]),
                    !.raw.default_val = None,
                    !.raw.primary_key = FALSE])

ColumnToString ==
    /\ On("column", "Column")
    /\ Render(Column_fmt(builder.raw))

NextColumn ==
    \/ ColumnInt \/ ColumnReal \/ ColumnText \/ ColumnBlob
    \/ ColumnNullable \/ ColumnUnique \/ ColumnPrimaryKey
    \/ ColumnCheck \/ ColumnDefaultValue \/ ColumnGenerated
    \/ ColumnToString

(***************************************************************************)
(* Check and ForeignKey  (src/src/schema/check.rs, foreign_key.rs)         *)
(***************************************************************************)
Check_new(constraint) == [expression |-> constraint]

\* impl fmt::Display for Check
Check_fmt(self) == <<" CHECK(">> \o self.expression \o <<") ">>

ForeignKeyActions == {"SetNull", "SetDefault", "Restrict", "NoAction", "Cascade"}

ForeignKeyAction_to_str(a) ==
    CASE a = "SetNull" -> <<"SET NULL">>
      [] a = "SetDefault" -> <<"SET DEFAULT">>
      [] a = "Restrict" -> <<"RESTRICT">>
      [] a = "NoAction" -> <<"NO ACTION">>
      [] a = "Cascade" -> <<"CASCADE">>

ForeignKey_new(col) ==
    Stage("ForeignKey",
          [ col |-> col, ref_col |-> <<>>, ref_table |-> <<>>,
            delete_action |-> Some("Restrict"), update_action |-> None ])

\* impl fmt::Display for ForeignKey
ForeignKey_fmt(self) ==
    <<" FOREIGN KEY (">> \o self.col \o <<") REFERENCES ">> \o self.ref_table
    \o <<" (">> \o self.ref_col \o <<") ">>
    \o (IF self.delete_action.tag = "Some"
        THEN <<"ON DELETE ">> \o ForeignKeyAction_to_str(self.delete_action.val)
             \o <<" ">>
        ELSE <<>>)
    \o (IF self.update_action.tag = "Some"
        THEN <<"ON UPDATE ">> \o ForeignKeyAction_to_str(self.update_action.val)
             \o <<" ">>
        ELSE <<>>)

InitForeignKey ==
    /\ family = "foreign_key"
    /\ \E col \in Tables :
           /\ builder = ForeignKey_new(col)
           /\ call = [op |-> "new", arg |-> col]
    /\ called = {}
    /\ ncalls = 0
    /\ out = NoText
    /\ NoHandles

ForeignKeyReferences ==
    /\ On("foreign_key", "ForeignKey")
    /\ \E table \in Tables, col \in Tables :
           Edit("references", <<table, col>>,
                [builder EXCEPT !.raw.ref_col = col, !.raw.ref_table = table])

ForeignKeyOnUpdate ==
    /\ On("foreign_key", "ForeignKey")
    /\ \E action \in ForeignKeyActions :
           Edit("on_update", <<action>>,
                [builder EXCEPT !.raw.update_action = Some(action)])

\* mutant: on_delete keeps the action of an earlier on_delete call
ForeignKeyOnDelete_first ==
    /\ On("foreign_key", "ForeignKey")
    /\ \E action \in ForeignKeyActions :
           Edit("on_delete", <<action>>,
                IF "on_delete" \in called THEN builder
                ELSE [builder EXCEPT !.raw.delete_action = Some(action)])

ForeignKeyOnDelete ==
    /\ On("foreign_key", "ForeignKey")
    /\ \E action \in ForeignKeyActions :
           Edit("on_delete", <<action>>,
                [builder EXCEPT !.raw.delete_action = Some(action)])

ForeignKeyToString ==
    /\ On("foreign_key", "ForeignKey")
    /\ Render(ForeignKey_fmt(builder.raw))

NextForeignKey ==
    ForeignKeyReferences \/ ForeignKeyOnUpdate \/ ForeignKeyOnDelete
    \/ ForeignKeyToString

(***************************************************************************)
(* Table, AlterTable, DropTable  (src/src/schema/table.rs)                 *)
(***************************************************************************)
\* the columns given to add_column
ColumnItems == { Column_new(<<"c">>).raw, Column_new(<<"d">>).raw }

\* fn fmt_array: strs is arr with to_string applied to every item
fmt_array(strs, sep) == join(strs, sep)

Table_new(name) ==
    Stage("Table", [name |-> name, cols |-> <<>>, checks |-> <<>>,
                    foreign_keys |-> <<>>])

\* impl fmt::Display for Table
Table_fmt(self) ==
    LET SEP == <<",\n">>
    IN  <<"CREATE TABLE ">> \o self.name \o <<" IF NOT EXISTS (", "\n">>
        \o fmt_array([i \in DOMAIN self.cols |-> Column_fmt(self.cols[i])], SEP)
        \o (IF self.checks # <<>> THEN SEP ELSE <<>>)
        \o fmt_array([i \in DOMAIN self.checks |-> Check_fmt(self.checks[i])], SEP)
        \o (IF self.foreign_keys # <<>> THEN SEP ELSE <<>>)
        \o fmt_array([i \in DOMAIN self.foreign_keys |->
                          ForeignKey_fmt(self.foreign_keys[i])], SEP)
        \o <<"\n);">>

InitTable ==
    /\ family = "table"
    /\ \E name \in Tables :
           /\ builder = Table_new(name)
           /\ call = [op |-> "create_table", arg |-> name]
    /\ called = {}
    /\ ncalls = 0
    /\ out = NoText
    /\ NoHandles

TableAddColumn ==
    /\ On("table", "Table")
    /\ \E col \in ColumnItems :
           Edit("add_column", col.name, [builder EXCEPT !.raw.cols = Append(@, col)])

\* mutant: add_check puts the new check in front of the earlier ones
TableAddCheck_front ==
    /\ On("table", "Table")
    /\ \E check \in {Check_new(<<"e">>), Check_new(<<"f">>)} :
           Edit("add_check", check.expression,
                [builder EXCEPT !.raw.checks = <<check>> \o @])

TableAddCheck ==
    /\ On("table", "Table")
    /\ \E check \in {Check_new(<<"e">>), Check_new(<<"f">>)} :
           Edit("add_check", check.expression,
                [builder EXCEPT !.raw.checks = Append(@, check)])

TableAddForeignKey ==
    /\ On("table", "Table")
    /\ \E foreign_key \in {ForeignKey_new(<<"k">>).raw, ForeignKey_new(<<"l">>).raw} :
           Edit("add_foreign_key", foreign_key.col,
                [builder EXCEPT !.raw.foreign_keys = Append(@, foreign_key)])

TableToString ==
    /\ On("table", "Table")
    /\ Render(Table_fmt(builder.raw))

NextTable == TableAddColumn \/ TableAddCheck \/ TableAddForeignKey \/ TableToString

\* AlterTable::new: every field but name is its Default
AlterTable_new(name) ==
    Stage("AlterTable", [name |-> name, new_name |-> None, cols |-> <<>>,
                         renames |-> <<>>, drops |-> <<>>])

\* mutant: the render lists the column drops before the column additions
AlterTable_fmt_drops_first(self) ==
    LET strings ==
            (IF self.new_name.tag = "Some"
             THEN << <<"ALTER TABLE ">> \o self.name \o <<" RENAME TO ">>
                     \o self.new_name.val \o <<";">> >>
             ELSE <<>>)
            \o [i \in DOMAIN self.renames |->
                   <<"ALTER TABLE ">> \o self.name \o <<" RENAME COLUMN ">>
                   \o self.renames[i][1] \o <<" TO ">> \o self.renames[i][2]
                   \o <<";">>]
            \o [i \in DOMAIN self.drops |->
                   <<"ALTER TABLE ">> \o self.name \o <<" DROP COLUMN ">>
                   \o self.drops[i] \o <<";">>]
            \o [i \in DOMAIN self.cols |->
                   <<"ALTER TABLE ">> \o self.name \o <<" ADD COLUMN ">>
                   \o Column_fmt(self.cols[i]) \o <<";">>]
    IN  join(strings, <<"\n">>)

\* mutant: the statements after RENAME TO name the table by its new name
AlterTable_fmt_renamed(self) ==
    LET now == IF self.new_name.tag = "Some" THEN self.new_name.val ELSE self.name
        strings ==
            (IF self.new_name.tag = "Some"
             THEN << <<"ALTER TABLE ">> \o self.name \o <<" RENAME TO ">>
                     \o self.new_name.val \o <<";">> >>
             ELSE <<>>)
            \o [i \in DOMAIN self.renames |->
                   <<"ALTER TABLE ">> \o now \o <<" RENAME COLUMN ">>
                   \o self.renames[i][1] \o <<" TO ">> \o self.renames[i][2]
                   \o <<";">>]
            \o [i \in DOMAIN self.cols |->
                   <<"ALTER TABLE ">> \o now \o <<" ADD COLUMN ">>
                   \o Column_fmt(self.cols[i]) \o <<";">>]
            \o [i \in DOMAIN self.drops |->
                   <<"ALTER TABLE ">> \o now \o <<" DROP COLUMN ">>
                   \o self.drops[i] \o <<";">>]
    IN  join(strings, <<"\n">>)

\* impl fmt::Display for AlterTable: len is only the capacity the Vec of
\* statements is allocated with
AlterTable_fmt(self) ==
    LET SEP == <<"\n">>
        strings ==
            (IF self.new_name.tag = "Some"
             THEN << <<"ALTER TABLE ">> \o self.name \o <<" RENAME TO ">>
                     \o self.new_name.val \o <<";">> >>
             ELSE <<>>)
            \o [i \in DOMAIN self.renames |->
                   <<"ALTER TABLE ">> \o self.name \o <<" RENAME COLUMN ">>
                   \o self.renames[i][1] \o <<" TO ">> \o self.renames[i][2]
                   \o <<";">>]
            \o [i \in DOMAIN self.cols |->
                   <<"ALTER TABLE ">> \o self.name \o <<" ADD COLUMN ">>
                   \o Column_fmt(self.cols[i]) \o <<";">>]
            \o [i \in DOMAIN self.drops |->
                   <<"ALTER TABLE ">> \o self.name \o <<" DROP COLUMN ">>
                   \o self.drops[i] \o <<";">>]
    IN  join(strings, SEP)

InitAlterTable ==
    /\ family = "alter_table"
    /\ \E name \in Tables :
           /\ builder = AlterTable_new(name)
           /\ call = [op |-> "alter_table", arg |-> name]
    /\ called = {}
    /\ ncalls = 0
    /\ out = NoText
    /\ NoHandles

AlterTableRenameTo ==
    /\ On("alter_table", "AlterTable")
    /\ \E new_name \in {<<"u">>, <<"v">>} :
           Edit("rename_to", new_name, [builder EXCEPT !.raw.new_name = Some(new_name)])

AlterTableAddColumn ==
    /\ On("alter_table", "AlterTable")
    /\ \E col \in ColumnItems :
           Edit("add_column", col.name, [builder EXCEPT !.raw.cols = Append(@, col)])

AlterTableRenameColumn ==
    /\ On("alter_table", "AlterTable")
    /\ \E col \in {<<"a">>}, new_col \in {<<"b">>, <<>>} :
           Edit("rename_column", <<col, new_col>>,
                [builder EXCEPT !.raw.renames = Append(@, <<col, new_col>>)])

AlterTableDropColumn ==
    /\ On("alter_table", "AlterTable")
    /\ \E col \in Tables :
           Edit("drop_column", col, [builder EXCEPT !.raw.drops = Append(@, col)])

AlterTableToString ==
    /\ On("alter_table", "AlterTable")
    /\ Render(AlterTable_fmt(builder.raw))

NextAlterTable ==
    AlterTableRenameTo \/ AlterTableAddColumn \/ AlterTableRenameColumn
    \/ AlterTableDropColumn \/ AlterTableToString

(***************************************************************************)
(* DROP TABLE / VIEW / TRIGGER  (table.rs, view.rs, triggers.rs)           *)
(***************************************************************************)
\* mutant: DROP TABLE carries IF EXISTS like the other two
DropTable_fmt_if_exists(self) == <<"DROP TABLE IF EXISTS ">> \o self \o <<";">>

\* impl fmt::Display for DropTable, ViewDrop, TriggerDrop: self is the name .0
DropTable_fmt(self) == <<"DROP TABLE ">> \o self \o <<";">>
ViewDrop_fmt(self) == <<"DROP VIEW IF EXISTS ">> \o self \o <<";">>
TriggerDrop_fmt(self) == <<"DROP TRIGGER IF EXISTS ">> \o self \o <<";">>

InitDrop ==
    /\ family = "drop"
    /\ \E name \in Tables :
           \* fn drop_table, drop_view, drop_trigger wrap the name
           \E f \in { <<"drop_table", "DropTable">>, <<"drop_view", "ViewDrop">>,
                      <<"drop_trigger", "TriggerDrop">> } :
               /\ builder = Stage(f[2], name)
               /\ call = [op |-> f[1], arg |-> name]
    /\ called = {}
    /\ ncalls = 0
    /\ out = NoText
    /\ NoHandles

DropTableToString ==
    /\ On("drop", "DropTable")
    /\ Render(DropTable_fmt(builder.raw))

ViewDropToString ==
    /\ On("drop", "ViewDrop")
    /\ Render(ViewDrop_fmt(builder.raw))

TriggerDropToString ==
    /\ On("drop", "TriggerDrop")
    /\ Render(TriggerDrop_fmt(builder.raw))

NextDrop == DropTableToString \/ ViewDropToString \/ TriggerDropToString

(***************************************************************************)
(* CREATE VIEW  (src/src/schema/view.rs)                                   *)
(***************************************************************************)
\* impl fmt::Display for ViewType
ViewType_fmt(t) == IF t = "Temporary" THEN <<"TEMP ">> ELSE <<>>

ViewCreate_new(name) ==
    [name |-> name, select |-> <<>>, typ |-> "Normal", columns |-> <<>>]

\* mutant: the column list is parenthesized even when it is empty
ViewCreate_fmt_parens(self) ==
    <<"CREATE ">> \o ViewType_fmt(self.typ) \o <<"VIEW IF NOT EXISTS ">>
    \o self.name \o <<"(">> \o join(self.columns, <<", ">>) \o <<")">>
    \o <<" AS ">> \o self.select \o <<";">>

\* impl fmt::Display for ViewCreate
ViewCreate_fmt(self) ==
    LET columns == IF self.columns # <<>>
                   THEN <<"(">> \o join(self.columns, <<", ">>) \o <<")">>
                   ELSE <<>>
    IN  <<"CREATE ">> \o ViewType_fmt(self.typ) \o <<"VIEW IF NOT EXISTS ">>
        \o self.name \o columns \o <<" AS ">> \o self.select \o <<";">>

InitView ==
    /\ family = "view"
    /\ \E name \in Tables :
           /\ builder = Stage("ViewCreateDef", ViewCreate_new(name))
           /\ call = [op |-> "create_view", arg |-> name]
    /\ called = {}
    /\ ncalls = 0
    /\ out = NoText
    /\ NoHandles

ViewTemporary ==
    /\ On("view", "ViewCreateDef")
    /\ Chain("temporary", <<>>, [builder EXCEPT !.raw.typ = "Temporary"])

ViewColumn ==
    /\ On("view", "ViewCreateDef")
    /\ \E col \in {<<"a">>, <<>>} :
           Chain("column", col, [builder EXCEPT !.raw.columns = Append(@, col)])

ViewColumns ==
    /\ On("view", "ViewCreateDef")
    /\ \E cols \in {<<>>, << <<"b">>, <<"c">> >>} :
           Chain("columns", cols, [builder EXCEPT !.raw.columns = @ \o cols])

\* mutant: as_ sets the SELECT text and stays at the defining stage
ViewAs_stay ==
    /\ On("view", "ViewCreateDef")
    /\ \E query \in {<<>>, <<"SELECT 1">>} :
           Chain("as_", query, [builder EXCEPT !.raw.select = query])

ViewAs ==
    /\ On("view", "ViewCreateDef")
    /\ \E query \in {<<>>, <<"SELECT 1">>} :
           Chain("as_", query,
                 Stage("ViewCreateStmt", [builder.raw EXCEPT !.select = query]))

\* ViewCreateStmt::typ_, name, columns: read-only accessors
ViewRead ==
    /\ On("view", "ViewCreateStmt")
    /\ \E op \in {"typ_", "name", "columns"} : call' = [op |-> op, arg |-> <<>>]
    /\ out' = NoText
    /\ UNCHANGED <<family, builder, called, ncalls, handles, records>>

\* impl fmt::Display for ViewCreateStmt
ViewToString ==
    /\ On("view", "ViewCreateStmt")
    /\ Render(ViewCreate_fmt(builder.raw))

NextView ==
    ViewTemporary \/ ViewColumn \/ ViewColumns \/ ViewAs \/ ViewRead \/ ViewToString

(***************************************************************************)
(* CREATE TRIGGER  (src/src/schema/triggers.rs)                            *)
(***************************************************************************)
\* impl fmt::Display for Action, Event, TriggerType
Action_fmt(a) ==
    CASE a = "After" -> <<"AFTER">>
      [] a = "Before" -> <<"BEFORE">>
      [] a = "InsteadOf" -> <<"INSTEAD OF">>

Event_fmt(e) ==
    CASE e = "Delete" -> <<"DELETE">>
      [] e = "Insert" -> <<"INSERT">>
      [] e = "Update" -> <<"UPDATE">>

TriggerType_fmt(t) == IF t = "Temporary" THEN <<"TEMP ">> ELSE <<>>

Trigger_new(name) ==
    [ name |-> name, table |-> <<>>, action |-> "Before", event |-> "Insert",
      stmts |-> <<>>, typ |-> "Normal", when |-> None ]

\* mutant: the WHEN line is written after the BEGIN line
Trigger_fmt_begin_first(self) ==
    <<"CREATE ">> \o TriggerType_fmt(self.typ) \o <<"TRIGGER IF NOT EXISTS ">>
    \o self.name \o <<" ">> \o Action_fmt(self.action) \o <<" ">>
    \o Event_fmt(self.event) \o <<" ON ">> \o self.table \o <<"\n">>
    \o <<"BEGIN", "\n">>
    \o (IF self.when.tag = "Some"
        THEN <<"WHEN ">> \o self.when.val \o <<"\n">> ELSE <<>>)
    \o join([i \in DOMAIN self.stmts |-> self.stmts[i] \o <<";", "\n">>], <<>>)
    \o <<"END;">>

\* impl fmt::Display for Trigger
Trigger_fmt(self) ==
    <<"CREATE ">> \o TriggerType_fmt(self.typ) \o <<"TRIGGER IF NOT EXISTS ">>
    \o self.name \o <<" ">> \o Action_fmt(self.action) \o <<" ">>
    \o Event_fmt(self.event) \o <<" ON ">> \o self.table \o <<"\n">>
    \o (IF self.when.tag = "Some"
        THEN <<"WHEN ">> \o self.when.val \o <<"\n">> ELSE <<>>)
    \o <<"BEGIN", "\n">>
    \o join([i \in DOMAIN self.stmts |-> self.stmts[i] \o <<";", "\n">>],
            <<>>)    \* for s in &self.stmts: one line each, nothing between
    \o <<"END;">>

InitTrigger ==
    /\ family = "trigger"
    /\ \E name \in Tables :
           /\ builder = Stage("TriggerNew", Trigger_new(name))
           /\ call = [op |-> "create_trigger", arg |-> name]
    /\ called = {}
    /\ ncalls = 0
    /\ out = NoText
    /\ NoHandles

TriggerTemporary ==
    /\ On("trigger", "TriggerNew")
    /\ Chain("temporary", <<>>, [builder EXCEPT !.raw.typ = "Temporary"])

TriggerAfter ==
    /\ On("trigger", "TriggerNew")
    /\ Chain("after", <<>>,
             Stage("TriggerWithAction", [builder.raw EXCEPT !.action = "After"]))

TriggerBefore ==
    /\ On("trigger", "TriggerNew")
    /\ Chain("before", <<>>,
             Stage("TriggerWithAction", [builder.raw EXCEPT !.action = "Before"]))

TriggerInsteadOf ==
    /\ On("trigger", "TriggerNew")
    /\ Chain("instead_of", <<>>,
             Stage("TriggerWithAction", [builder.raw EXCEPT !.action = "InsteadOf"]))

TriggerDelete ==
    /\ On("trigger", "TriggerWithAction")
    /\ Chain("delete", <<>>,
             Stage("TriggerWithEvent", [builder.raw EXCEPT !.event = "Delete"]))

TriggerInsert ==
    /\ On("trigger", "TriggerWithAction")
    /\ Chain("insert", <<>>,
             Stage("TriggerWithEvent", [builder.raw EXCEPT !.event = "Insert"]))

TriggerUpdate ==
    /\ On("trigger", "TriggerWithAction")
    /\ Chain("update", <<>>,
             Stage("TriggerWithEvent", [builder.raw EXCEPT !.event = "Update"]))

\* mutant: on hands back the stage that chooses the event
TriggerOn_back ==
    /\ On("trigger", "TriggerWithEvent")
    /\ \E table \in Tables :
           Chain("on", table,
                 Stage("TriggerWithAction", [builder.raw EXCEPT !.table = table]))

TriggerOn ==
    /\ On("trigger", "TriggerWithEvent")
    /\ \E table \in Tables :
           Chain("on", table,
                 Stage("TriggerWithTable", [builder.raw EXCEPT !.table = table]))

TriggerWhen ==
    /\ On("trigger", "TriggerWithTable")
    /\ \E expr \in Conds :
           Chain("when", expr, [builder EXCEPT !.raw.when = Some(expr)])

\* TriggerWithTable::statement and TriggerFull::statement
TriggerStatement ==
    /\ family = "trigger"
    /\ builder.stage \in {"TriggerWithTable", "TriggerFull"}
    /\ \E stmt \in {<<"s">>, <<>>} :
           Chain("statement", stmt,
                 Stage("TriggerFull", [builder.raw EXCEPT !.stmts = Append(@, stmt)]))

\* mutant: statements replaces the body instead of extending it
TriggerStatements_replace ==
    /\ family = "trigger"
    /\ builder.stage \in {"TriggerWithTable", "TriggerFull"}
    /\ \E stmts \in {<<>>, << <<"i">>, <<"j">> >>} :
           Chain("statements", stmts,
                 Stage("TriggerFull", [builder.raw EXCEPT !.stmts = stmts]))

\* TriggerWithTable::statements and TriggerFull::statements
TriggerStatements ==
    /\ family = "trigger"
    /\ builder.stage \in {"TriggerWithTable", "TriggerFull"}
    /\ \E stmts \in {<<>>, << <<"i">>, <<"j">> >>} :
           Chain("statements", stmts,
                 Stage("TriggerFull", [builder.raw EXCEPT !.stmts = @ \o stmts]))

\* impl fmt::Display for TriggerFull
TriggerToString ==
    /\ On("trigger", "TriggerFull")
    /\ Render(Trigger_fmt(builder.raw))

NextTrigger ==
    \/ TriggerTemporary \/ TriggerAfter \/ TriggerBefore \/ TriggerInsteadOf
    \/ TriggerDelete \/ TriggerInsert \/ TriggerUpdate \/ TriggerOn
    \/ TriggerWhen \/ TriggerStatement \/ TriggerStatements \/ TriggerToString

(***************************************************************************)
(* The schema builders together, and every builder of the crate            *)
(***************************************************************************)
InitSchema ==
    InitColumn \/ InitForeignKey \/ InitTable \/ InitAlterTable \/ InitDrop
    \/ InitView \/ InitTrigger

NextSchema ==
    NextColumn \/ NextForeignKey \/ NextTable \/ NextAlterTable \/ NextDrop
    \/ NextView \/ NextTrigger

SpecSchema == InitSchema /\ [][NextSchema]_vars

Init == InitQuery \/ InitSchema

Next == NextQuery \/ NextSchema

Spec == Init /\ [][Next]_vars

(***************************************************************************)
(* Properties                                                              *)
(***************************************************************************)
\* this step is a call of builder method op
Called(op) == ncalls' = ncalls + 1 /\ call'.op = op
\* this step is a call of some builder method
CalledAny == ncalls' = ncalls + 1
\* the state holds the text a render has just returned
Rendered == call.op = "to_string"

\* the n tokens of text that follow its first token kw (<< >> if text has
\* no kw, or fewer than n tokens after it)
TextAfter(text, kw, n) ==
    LET i == IndexOf(text, kw)
    IN  IF i = 0 \/ i + n > Len(text) THEN <<>> ELSE SubSeq(text, i + 1, i + n)

\* the first kw of text is followed by exactly body, and body ends the text
\* or is followed by a clause keyword
ClauseIs(text, kw, body) ==
    LET last == IndexOf(text, kw) + Len(body)
    IN  /\ Contains(text, kw)
        /\ TextAfter(text, kw, Len(body)) = body
        /\ last = Len(text)
           \/ text[last + 1] \in
                  {" WHERE ", " GROUP BY ", " HAVING ", " ORDER BY ", " LIMIT ", " OFFSET "}

StageRank(s) ==
    CASE s = "SelectQuery" -> 1
      [] s = "WhereQuery" -> 2
      [] s = "GroupQuery" -> 3
      [] s = "HavingQuery" -> 4
      [] s = "OrderByQuery" -> 5

\* <<stage, method, stage returned>>
SelectProtocol ==
    {<<"SelectQuery", op, "SelectQuery">> : op \in {"from", "limit", "offset", "distinct"}}
    \cup {<<"SelectQuery", "where_", "WhereQuery">>,
          <<"SelectQuery", "group_by", "GroupQuery">>,
          <<"WhereQuery", "group_by", "GroupQuery">>,
          <<"GroupQuery", "having", "HavingQuery">>}
    \cup {<<st, op, st>> : st \in {"WhereQuery", "HavingQuery"}, op \in {"and", "or"}}
    \cup {<<st, "order_by", "OrderByQuery">> : st \in SelectStages}
    \cup {<<"OrderByQuery", op, "OrderByQuery">> : op \in {"asc", "desc"}}

\* C1: every builder call of a SELECT chain is one of the protocol's stage
\* transitions, the stage rank never decreases, and where_, group_by and
\* having are each called at most once and never after a later clause.
C1_StageProtocol ==
    [][CalledAny =>
          /\ <<builder.stage, call'.op, builder'.stage>> \in SelectProtocol
          /\ StageRank(builder'.stage) >= StageRank(builder.stage)
          /\ call'.op = "where_" =>
                 called \cap {"where_", "group_by", "having", "order_by"} = {}
          /\ call'.op = "group_by" =>
                 called \cap {"group_by", "having", "order_by"} = {}
          /\ call'.op = "having" =>
                 called \cap {"having", "order_by"} = {}]_vars

C1_Witness ==
    /\ family = "select"
    /\ builder.stage = "OrderByQuery"
    /\ {"where_", "and", "group_by", "having", "or", "order_by"} \subseteq called

ClauseKeywords ==
    <<"SELECT", " FROM ", " WHERE ", " GROUP BY ", " HAVING ", " ORDER BY ",
      " LIMIT ", " OFFSET ">>

\* C2: in every rendered SELECT the clause keywords that are present occur
\* once each and in the order SELECT, FROM, WHERE, GROUP BY, HAVING,
\* ORDER BY, LIMIT, OFFSET.
C2_ClauseOrder ==
    (family = "select" /\ Rendered) =>
        /\ out[1] = "SELECT"
        /\ \A i \in 1..Len(ClauseKeywords) : Count(out, ClauseKeywords[i]) <= 1
        /\ \A i, j \in 1..Len(ClauseKeywords) :
               (i < j /\ Contains(out, ClauseKeywords[i])
                      /\ Contains(out, ClauseKeywords[j]))
               => IndexOf(out, ClauseKeywords[i]) < IndexOf(out, ClauseKeywords[j])

C2_Witness ==
    /\ family = "select"
    /\ Rendered
    /\ \A i \in 1..Len(ClauseKeywords) : Contains(out, ClauseKeywords[i])

\* C3: a rendered SELECT holds each of FROM, WHERE, GROUP BY, HAVING,
\* ORDER BY, LIMIT, OFFSET only when the field of that clause is non-empty
\* (LIMIT and OFFSET: set).
C3_EmitOnlyNonEmpty ==
    (family = "select" /\ Rendered) =>
        /\ Contains(out, " FROM ") => builder.raw.from # <<>>
        /\ Contains(out, " WHERE ") => builder.raw.where_ # <<>>
        /\ Contains(out, " GROUP BY ") => builder.raw.group_by # <<>>
        /\ Contains(out, " HAVING ") => builder.raw.having # <<>>
        /\ Contains(out, " ORDER BY ") => builder.raw.sort_by # <<>>
        /\ Contains(out, " LIMIT ") => builder.raw.limit # None
        /\ Contains(out, " OFFSET ") => builder.raw.offset # None

PredField(b) == IF b.stage = "HavingQuery" THEN b.raw.having ELSE b.raw.where_

\* C5: where_(p) and having(p) store p, and(q) and or(q) append " AND q"
\* and " OR q" to the stored predicate and change nothing before it, and a
\* render of SELECT, UPDATE or DELETE holds the stored predicate verbatim
\* after WHERE (SELECT: also after HAVING).
C5_PredicateAppend ==
    [][/\ (Called("where_") \/ Called("having")) =>
              PredField(builder') = call'.arg
       /\ Called("and") =>
              /\ builder'.stage = builder.stage
              /\ PredField(builder') = PredField(builder) \o <<" AND ">> \o call'.arg
       /\ Called("or") =>
              /\ builder'.stage = builder.stage
              /\ PredField(builder') = PredField(builder) \o <<" OR ">> \o call'.arg
       /\ (call'.op = "to_string" /\ family \in {"select", "update", "delete"}) =>
              /\ builder.raw.where_ # <<>> =>
                     ClauseIs(out', " WHERE ", builder.raw.where_)
              /\ (family = "select" /\ builder.raw.having # <<>>) =>
                     ClauseIs(out', " HAVING ", builder.raw.having)]_vars

C5_Witness ==
    /\ family = "select"
    /\ Rendered
    /\ ClauseIs(out, " WHERE ", <<"p", " AND ", "q", " OR ", "r">>)
    /\ ClauseIs(out, " HAVING ", <<"p", " OR ", "q">>)

KeyText(k) == k[1] \o <<" ", IF k[2] = "Desc" THEN "DESC" ELSE "ASC">>
OrderByText(keys) ==
    join([i \in 1..Len(keys) |-> KeyText(keys[i])], <<", ">>)

DigitValue(d) == CHOOSE v \in 0..9 : Digits[v + 1] = d
RECURSIVE DecimalValue(_)
DecimalValue(text) ==
    IF text = <<>> THEN 0
    ELSE 10 * DecimalValue(SubSeq(text, 1, Len(text) - 1))
         + DigitValue(text[Len(text)])
\* text is the decimal numeral of n
IsDecimalOf(text, n) ==
    /\ Len(text) >= 1
    /\ \A i \in 1..Len(text) : \E v \in 0..9 : Digits[v + 1] = text[i]
    /\ Len(text) > 1 => text[1] # "0"
    /\ DecimalValue(text) = n
\* field holds the text limit(arg) / offset(arg) asks for
CountIs(field, arg) ==
    /\ field.tag = "Some"
    /\ IF arg.tag = "None" THEN field.val = <<"?">> ELSE IsDecimalOf(field.val, arg.val)
\* the clause kw of a render is present exactly when its method was called,
\* and then it carries the text of the field
CountClause(text, kw, field, wasCalled) ==
    /\ Contains(text, kw) <=> wasCalled
    /\ wasCalled => (field.tag = "Some" /\ ClauseIs(text, kw, field.val))

\* C7: limit(None) stores "?" and limit(Some(n)) the decimal numeral of n,
\* only limit changes the stored text (so the last call decides), and a
\* render holds "LIMIT <text>" exactly when limit was called.  The same
\* for offset and OFFSET.
C7_LimitOffset ==
    [][family = "select" =>
          /\ Called("limit") => CountIs(builder'.raw.limit, call'.arg)
          /\ Called("offset") => CountIs(builder'.raw.offset, call'.arg)
          /\ (CalledAny /\ call'.op # "limit") =>
                 builder'.raw.limit = builder.raw.limit
          /\ (CalledAny /\ call'.op # "offset") =>
                 builder'.raw.offset = builder.raw.offset
          /\ call'.op = "to_string" =>
                 /\ CountClause(out', " LIMIT ", builder'.raw.limit,
                                "limit" \in called')
                 /\ CountClause(out', " OFFSET ", builder'.raw.offset,
                                "offset" \in called')]_vars

C7_Witness ==
    /\ family = "select"
    /\ Rendered
    /\ call.op = "to_string"
    /\ TextAfter(out, " LIMIT ", 1) = <<"?">>
    /\ TextAfter(out, " OFFSET ", 2) = <<"1", "0">>
    /\ builder.stage = "SelectQuery"

\* C8: once limit (offset, distinct) was called on a SELECT, every later
\* render holds a LIMIT (OFFSET, DISTINCT) clause.
C8_NoWithdrawal ==
    (family = "select" /\ Rendered) =>
        /\ "limit" \in called => Contains(out, " LIMIT ")
        /\ "offset" \in called => Contains(out, " OFFSET ")
        /\ "distinct" \in called => Contains(out, " DISTINCT")

C8_Witness ==
    /\ family = "select"
    /\ Rendered
    /\ {"limit", "offset", "distinct", "where_", "order_by"} \subseteq called
    /\ Contains(out, " LIMIT ") /\ Contains(out, " OFFSET ")
    /\ Contains(out, " DISTINCT")

\* the stage types of each builder family
StagesOf(fam) ==
    CASE fam = "select" -> SelectStages
      [] fam = "insert" -> {"Insert", "InsertInto", "FinalInsert"}
      [] fam = "update" -> {"Update", "UpdateSet", "UpdateWhere"}
      [] fam = "delete" -> {"DeleteFrom", "DeleteWhere"}
      [] fam = "column" -> {"Column"}
      [] fam = "foreign_key" -> {"ForeignKey"}
      [] fam = "table" -> {"Table"}
      [] fam = "alter_table" -> {"AlterTable"}
      [] fam = "view" -> {"ViewCreateDef", "ViewCreateStmt"}
      [] fam = "trigger" -> {"TriggerNew", "TriggerWithAction", "TriggerWithEvent",
                             "TriggerWithTable", "TriggerFull"}
      [] fam = "drop" -> {"DropTable", "ViewDrop", "TriggerDrop"}

\* C9: no call sequence of any builder reaches an error state: after every
\* call, with every input, the builder is a value of one of its family's
\* stage types; every render returns a String; and an INSERT built from an
\* empty column list and an empty value list still renders, as
\* INSERT INTO t() VALUES().
C9_NoErrorPath ==
    /\ builder.stage \in StagesOf(family)
    /\ Rendered => out \in Seq(STRING)
    /\ (Rendered /\ family = "insert" /\ "values" \in called
            /\ builder.raw.columns = <<>> /\ builder.raw.values = <<>>) =>
           out = <<"INSERT INTO ">> \o builder.raw.table \o <<"(", ") VALUES(", ")">>

\* INSERT INTO t() VALUES() has been rendered from two empty lists
C9_Witness ==
    /\ family = "insert"
    /\ Rendered
    /\ called = {"into", "values"}
    /\ builder.raw.columns = <<>> /\ builder.raw.values = <<>>
    /\ out = <<"INSERT INTO ", "t", "(", ") VALUES(", ")">>

LiveHandles(hs) == {i \in DOMAIN hs : hs[i].live}

\* C10: at most one live handle holds a record; a handle that was moved
\* from is never used or revived; a call moves the record from the handle it
\* is called on into a new one; a clone owns a new record with the same
\* fields; and no step changes the record, or the render, of any other live
\* handle.
C10_SingleOwner ==
    [][family = "own" =>
          LET grew == Len(handles') = Len(handles) + 1
              new == handles'[Len(handles')]
          IN  /\ \A i, j \in LiveHandles(handles') :
                     handles'[i].rec = handles'[j].rec => i = j
              /\ \A i \in DOMAIN handles :
                     ~handles[i].live => handles'[i] = handles[i]
              /\ (grew \/ call' # call) => call'.on \in LiveHandles(handles)
              /\ (grew /\ call'.op # "clone") =>
                     /\ ~handles'[call'.on].live
                     /\ new.rec = handles[call'.on].rec
              /\ (grew /\ call'.op = "clone") =>
                     /\ handles'[call'.on] = handles[call'.on]
                     /\ new.rec \notin {handles[i].rec : i \in DOMAIN handles}
                     /\ Stage(new.stage, records'[new.rec]) = Deref(handles[call'.on])
              /\ \A i \in LiveHandles(handles) :
                     (i # call'.on \/ call'.op \in {"clone", "to_string"}) =>
                         /\ handles'[i] = handles[i]
                         /\ records'[handles[i].rec] = records[handles[i].rec]
                         /\ Displayed(Stage(handles'[i].stage, records'[handles'[i].rec]))
                                = Displayed(Deref(handles[i]))]_vars

\* a chain and its clone have both been built on, and differ
C10_Witness ==
    /\ family = "own"
    /\ Cardinality(LiveHandles(handles)) = 2
    /\ Len(records) = 2
    /\ records[1] # records[2]
    /\ \E i \in DOMAIN handles : ~handles[i].live /\ handles[i].rec = 1
    /\ \E i \in DOMAIN handles : ~handles[i].live /\ handles[i].rec = 2

\* C11: in every reachable Column state unique or primary_key implies
\* not_null, and a rendered column shows UNIQUE or PRIMARY KEY only together
\* with NOT NULL.
C11_NullableInvariant ==
    family = "column" =>
        /\ (builder.raw.unique \/ builder.raw.primary_key) => builder.raw.not_null
        /\ (Rendered /\ (Contains(out, " UNIQUE") \/ Contains(out, " PRIMARY KEY")))
               => Contains(out, " NOT NULL")

\* a column that was made unique and a primary key, then nullable, is rendered
C11_Witness ==
    /\ family = "column"
    /\ Rendered
    /\ {"unique", "primary_key", "nullable"} \subseteq called
    /\ ~builder.raw.not_null

\* C12: in every reachable Column state a column that carries a generated
\* spec has no default value and is not a primary key, and no rendered column
\* holds " AS (" together with " DEFAULT " or " PRIMARY KEY".
C12_GeneratedInvariant ==
    family = "column" =>
        /\ builder.raw.generated.tag = "Some" =>
               /\ builder.raw.default_val.tag = "None"
               /\ ~builder.raw.primary_key
        /\ (Rendered /\ Contains(out, " AS (")) =>
               /\ ~Contains(out, " DEFAULT ")
               /\ ~Contains(out, " PRIMARY KEY")

\* C13: nullable() sets not_null, unique and primary_key to false and leaves
\* name, type, check, default value and generated spec as they were, so the
\* column then renders without NOT NULL, UNIQUE and PRIMARY KEY;
\* generated(expr, kind) sets the generated spec to (expr, kind), clears the
\* default value and primary_key and leaves name, type, not_null, unique and
\* check as they were, so the column then renders without DEFAULT.
C13_ResetEffects ==
    [][family = "column" =>
          LET old == builder.raw
              new == builder'.raw
              text == Column_fmt(builder'.raw)
          IN  /\ Called("nullable") =>
                     /\ ~new.not_null /\ ~new.unique /\ ~new.primary_key
                     /\ new.name = old.name /\ new.typ_ = old.typ_
                     /\ new.check = old.check
                     /\ new.default_val = old.default_val
                     /\ new.generated = old.generated
                     /\ ~Contains(text, " NOT NULL")
                     /\ ~Contains(text, " UNIQUE")
                     /\ ~Contains(text, " PRIMARY KEY")
              /\ Called("generated") =>
                     /\ new.generated.tag = "Some"
                     /\ new.generated.val.expr = call'.arg[1]
                     /\ new.generated.val.type_ = call'.arg[2]
                     /\ new.default_val.tag = "None" /\ ~new.primary_key
                     /\ new.name = old.name /\ new.typ_ = old.typ_
                     /\ new.not_null = old.not_null /\ new.unique = old.unique
                     /\ new.check = old.check
                     /\ ~Contains(text, " DEFAULT ")
                     /\ Contains(text, " AS (")]_vars

\* nullable() has just reset a column that had been made a primary key, and
\* whose default value an earlier generated() had dropped
C13_Witness ==
    /\ family = "column"
    /\ call.op = "nullable"
    /\ {"primary_key", "default_value", "generated"} \subseteq called
    /\ builder.raw.generated.tag = "Some"
    /\ builder.raw.default_val.tag = "None"
    /\ ~builder.raw.not_null

\* the number of items a Table holds
TableItems(t) == Len(t.cols) + Len(t.checks) + Len(t.foreign_keys)

Appended(old, list) ==
    Len(list) = Len(old) + 1 /\ SubSeq(list, 1, Len(old)) = old

\* the caller's tokens that name the items of a rendered Table, in the order
\* the text holds them
TableItemTokens(text) ==
    LET IsItem(tok) == tok \in {"c", "d", "e", "f", "k", "l"}
    IN  SelectSeq(text, IsItem)

\* C15: every add_column, add_check and add_foreign_key call appends its item
\* to its own category and leaves the other two categories alone, whatever the
\* interleaving; and the rendered body names all columns, then all checks,
\* then all foreign keys, each category in the order its items were added.
C15_TableCategoryOrder ==
    /\ [][family = "table" =>
             LET old == builder.raw
                 new == builder'.raw
             IN  /\ Called("add_column") =>
                        /\ Appended(old.cols, new.cols)
                        /\ new.cols[Len(new.cols)].name = call'.arg
                        /\ new.checks = old.checks
                        /\ new.foreign_keys = old.foreign_keys
                 /\ Called("add_check") =>
                        /\ Appended(old.checks, new.checks)
                        /\ new.checks[Len(new.checks)].expression = call'.arg
                        /\ new.cols = old.cols
                        /\ new.foreign_keys = old.foreign_keys
                 /\ Called("add_foreign_key") =>
                        /\ Appended(old.foreign_keys, new.foreign_keys)
                        /\ new.foreign_keys[Len(new.foreign_keys)].col = call'.arg
                        /\ new.cols = old.cols
                        /\ new.checks = old.checks]_vars
    /\ [](family = "table" /\ Rendered =>
             LET t == builder.raw
             IN  TableItemTokens(out)
                     = join([i \in DOMAIN t.cols |-> t.cols[i].name], <<>>)
                       \o join([i \in DOMAIN t.checks |-> t.checks[i].expression], <<>>)
                       \o join([i \in DOMAIN t.foreign_keys |-> t.foreign_keys[i].col],
                               <<>>))

\* a table holding two checks, a column and a foreign key is rendered
C15_Witness ==
    /\ family = "table"
    /\ Rendered
    /\ Len(builder.raw.checks) = 2
    /\ builder.raw.checks[1] # builder.raw.checks[2]
    /\ Len(builder.raw.cols) = 1
    /\ Len(builder.raw.foreign_keys) = 1

\* the pieces of text between its sep tokens (none for the empty text)
RECURSIVE Split(_, _)
Split(text, sep) ==
    IF text = <<>> THEN <<>>
    ELSE LET i == IndexOf(text, sep)
         IN  IF i = 0 THEN <<text>>
             ELSE <<SubSeq(text, 1, i - 1)>> \o Split(SubSeq(text, i + 1, Len(text)), sep)

\* the operations an AlterTable has recorded, in category order: the keyword
\* and the argument text of the statement each one stands for
AlterTableOps(t) ==
    (IF t.new_name.tag = "Some"
     THEN <<[kw |-> " RENAME TO ", arg |-> t.new_name.val]>> ELSE <<>>)
    \o [i \in DOMAIN t.renames |->
           [kw |-> " RENAME COLUMN ",
            arg |-> t.renames[i][1] \o <<" TO ">> \o t.renames[i][2]]]
    \o [i \in DOMAIN t.cols |-> [kw |-> " ADD COLUMN ", arg |-> Column_fmt(t.cols[i])]]
    \o [i \in DOMAIN t.drops |-> [kw |-> " DROP COLUMN ", arg |-> t.drops[i]]]

\* C16: rename_column, add_column and drop_column append to their own
\* category and rename_to sets the new name, each leaving the other categories
\* alone whatever the interleaving; and the render is one line per recorded
\* operation, "ALTER TABLE name <keyword> <argument>;", newline-joined, in
\* the order rename-table, column renames, column additions, column drops,
\* each category in insertion order.
C16_AlterTableStatements ==
    /\ [][family = "alter_table" =>
             LET old == builder.raw
                 new == builder'.raw
             IN  /\ Called("rename_to") =>
                        /\ new.new_name = Some(call'.arg)
                        /\ new.renames = old.renames /\ new.cols = old.cols
                        /\ new.drops = old.drops
                 /\ Called("rename_column") =>
                        /\ new.renames = Append(old.renames, call'.arg)
                        /\ new.new_name = old.new_name /\ new.cols = old.cols
                        /\ new.drops = old.drops
                 /\ Called("add_column") =>
                        /\ Appended(old.cols, new.cols)
                        /\ new.cols[Len(new.cols)].name = call'.arg
                        /\ new.new_name = old.new_name /\ new.renames = old.renames
                        /\ new.drops = old.drops
                 /\ Called("drop_column") =>
                        /\ new.drops = Append(old.drops, call'.arg)
                        /\ new.new_name = old.new_name /\ new.renames = old.renames
                        /\ new.cols = old.cols
                 /\ CalledAny => new.name = old.name]_vars
    /\ [](family = "alter_table" /\ Rendered =>
             LET ops == AlterTableOps(builder.raw)
                 lines == Split(out, "\n")
             IN  /\ Len(lines) = Len(ops)
                 /\ Count(out, "ALTER TABLE ") = Len(ops)
                 /\ \A k \in DOMAIN ops :
                        lines[k] = <<"ALTER TABLE ">> \o builder.raw.name
                                   \o <<ops[k].kw>> \o ops[k].arg \o <<";">>)

\* an AlterTable with one operation of each category is rendered
C16_Witness ==
    /\ family = "alter_table"
    /\ Rendered
    /\ called = {"rename_to", "rename_column", "add_column", "drop_column"}
    /\ Count(out, "\n") = 3

TriggerRank(s) ==
    CASE s = "TriggerNew" -> 1
      [] s = "TriggerWithAction" -> 2
      [] s = "TriggerWithEvent" -> 3
      [] s = "TriggerWithTable" -> 4
      [] s = "TriggerFull" -> 5

TimingOps == {"before", "after", "instead_of"}
EventOps == {"insert", "update", "delete"}
BodyOps == {"statement", "statements"}

\* <<stage, method, stage returned>>
TriggerProtocol ==
    {<<"TriggerNew", "temporary", "TriggerNew">>,
     <<"TriggerWithEvent", "on", "TriggerWithTable">>,
     <<"TriggerWithTable", "when", "TriggerWithTable">>}
    \cup {<<"TriggerNew", op, "TriggerWithAction">> : op \in TimingOps}
    \cup {<<"TriggerWithAction", op, "TriggerWithEvent">> : op \in EventOps}
    \cup {<<st, op, "TriggerFull">> :
              st \in {"TriggerWithTable", "TriggerFull"}, op \in BodyOps}

\* C17: every call of a trigger chain is a transition of the protocol
\* timing, event, target, optional when, body; no stage is returned to;
\* temporary is called only before the timing; timing, event and target are
\* each called once; only TriggerFull is rendered, and the render shows the
\* timing, the event and the table that the calls chose.
C17_TriggerProtocol ==
    /\ [][(family = "trigger" /\ CalledAny) =>
             /\ <<builder.stage, call'.op, builder'.stage>> \in TriggerProtocol
             /\ TriggerRank(builder'.stage) >= TriggerRank(builder.stage)
             /\ call'.op = "temporary" => called \subseteq {"temporary"}
             /\ call'.op \in TimingOps => called \subseteq {"temporary"}
             /\ call'.op \in EventOps =>
                    called \cap (EventOps \cup {"on", "when"} \cup BodyOps) = {}
             /\ call'.op = "on" => called \cap ({"on", "when"} \cup BodyOps) = {}
             /\ call'.op = "when" => called \cap BodyOps = {}
             /\ builder'.raw.table
                    = IF call'.op = "on" THEN call'.arg ELSE builder.raw.table]_vars
    /\ []((family = "trigger" /\ Rendered) =>
             /\ builder.stage = "TriggerFull"
             /\ Cardinality(called \cap TimingOps) = 1
             /\ Cardinality(called \cap EventOps) = 1
             /\ "on" \in called /\ called \cap BodyOps # {}
             /\ SubSeq(out, IndexOf(out, " ON ") + 1, IndexOf(out, "\n") - 1)
                    = builder.raw.table
             /\ Contains(out, "BEFORE") <=> "before" \in called
             /\ Contains(out, "AFTER") <=> "after" \in called
             /\ Contains(out, "INSTEAD OF") <=> "instead_of" \in called
             /\ Contains(out, "INSERT") <=> "insert" \in called
             /\ Contains(out, "UPDATE") <=> "update" \in called
             /\ Contains(out, "DELETE") <=> "delete" \in called
             /\ Contains(out, "TEMP ") <=> "temporary" \in called)

\* a temporary INSTEAD OF DELETE trigger with a WHEN clause is rendered
C17_Witness ==
    /\ family = "trigger"
    /\ Rendered
    /\ {"temporary", "instead_of", "delete", "on", "when", "statement"} \subseteq called

\* the lines of a rendered trigger, and the number of its BEGIN line
TriggerLines(text) == Split(text, "\n")
BeginLine(lines) == CHOOSE k \in DOMAIN lines : lines[k] = <<"BEGIN">>

\* C18: statement(s) appends s to the body and statements(list) appends the
\* list in list order; no call removes, changes or reorders a statement
\* already in the body; and the render holds, between the BEGIN line and the
\* END; line, one line per body statement, in body order, each the statement
\* followed by ";".
C18_BodyAppendOnly ==
    /\ [][(family = "trigger" /\ CalledAny) =>
             LET old == builder.raw.stmts
                 new == builder'.raw.stmts
             IN  new = CASE call'.op = "statement" -> Append(old, call'.arg)
                         [] call'.op = "statements" -> old \o call'.arg
                         [] OTHER -> old]_vars
    /\ []((family = "trigger" /\ Rendered) =>
             LET lines == TriggerLines(out)
                 stmts == builder.raw.stmts
                 begin == BeginLine(lines)
             IN  /\ Cardinality({k \in DOMAIN lines : lines[k] = <<"BEGIN">>}) = 1
                 /\ Len(lines) = begin + Len(stmts) + 1
                 /\ lines[Len(lines)] = <<"END;">>
                 /\ \A i \in DOMAIN stmts : lines[begin + i] = stmts[i] \o <<";">>)

\* a body built by statements, then statement, is rendered
C18_Witness ==
    /\ family = "trigger"
    /\ Rendered
    /\ BodyOps \subseteq called
    /\ builder.raw.stmts = << <<"i">>, <<"j">>, <<"s">> >>

\* C19 as stated: a rendered trigger with a WHEN clause and two body
\* statements has 5 lines: header, WHEN, BEGIN, the body lines, END;.
C19_FiveLines ==
    (family = "trigger" /\ Rendered /\ "when" \in called
         /\ Len(builder.raw.stmts) = 2) =>
        LET lines == TriggerLines(out)
        IN  /\ Len(lines) = 5
            /\ lines[2][1] = "WHEN "
            /\ lines[3] = <<"BEGIN">>
            /\ lines[Len(lines)] = <<"END;">>

\* C19, amended: a rendered trigger has 3 + w + n lines, where w is 1 if
\* when() was called and 0 otherwise and n is the number of body statements:
\* the header line, the WHEN line exactly when when() was called, BEGIN, one
\* ";"-terminated line per body statement in insertion order, END;.  With a
\* WHEN clause and two body statements that is 6 lines.
C19_TriggerLayout ==
    (family = "trigger" /\ Rendered) =>
        LET lines == TriggerLines(out)
            stmts == builder.raw.stmts
            w == IF "when" \in called THEN 1 ELSE 0
        IN  /\ Len(lines) = 3 + w + Len(stmts)
            /\ lines[1][1] = "CREATE "
            /\ Count(out, "WHEN ") = w
            /\ w = 1 => /\ builder.raw.when.tag = "Some"
                        /\ lines[2] = <<"WHEN ">> \o builder.raw.when.val
            /\ lines[2 + w] = <<"BEGIN">>
            /\ \A i \in DOMAIN stmts : lines[2 + w + i] = stmts[i] \o <<";">>
            /\ lines[Len(lines)] = <<"END;">>
            /\ (w = 1 /\ Len(stmts) = 2) => Len(lines) = 6

\* a trigger with a WHEN clause and two body statements is rendered
C19_Witness ==
    /\ family = "trigger"
    /\ Rendered
    /\ "when" \in called
    /\ builder.raw.stmts = << <<"i">>, <<"j">> >>
    /\ Len(TriggerLines(out)) = 6

\* <<stage, method, stage returned>>
ViewProtocol ==
    {<<"ViewCreateDef", op, "ViewCreateDef">> : op \in {"temporary", "column", "columns"}}
    \cup {<<"ViewCreateDef", "as_", "ViewCreateStmt">>}

\* C20: temporary, column and columns are called on the defining stage only
\* and keep it; as_ is called once, moves the builder to ViewCreateStmt and
\* is the last builder call: after it no step changes the name, the type,
\* the column list or the SELECT text; and a view is rendered only after as_.
C20_ViewProtocol ==
    /\ [][family = "view" =>
             /\ CalledAny =>
                    /\ <<builder.stage, call'.op, builder'.stage>> \in ViewProtocol
                    /\ "as_" \notin called
             /\ "as_" \in called => (~CalledAny /\ builder' = builder)]_vars
    /\ [](family = "view" =>
             /\ builder.stage = "ViewCreateStmt" <=> "as_" \in called
             /\ Rendered => builder.stage = "ViewCreateStmt"
             /\ call.op \in {"typ_", "name"} => builder.stage = "ViewCreateStmt")

\* a temporary view with columns from column and columns is rendered after as_
C20_Witness ==
    /\ family = "view"
    /\ Rendered
    /\ called = {"temporary", "column", "columns", "as_"}
    /\ builder.raw.select = <<"SELECT 1">>

\* the column list of a CREATE VIEW: nothing for no alias, otherwise the
\* aliases in order, a ", " before each but the first, in parentheses
AliasList(cols) ==
    LET RECURSIVE Rest(_)
        Rest(k) == IF k > Len(cols) THEN <<")">>
                   ELSE <<", ">> \o cols[k] \o Rest(k + 1)
    IN  IF Len(cols) = 0 THEN <<>> ELSE <<"(">> \o cols[1] \o Rest(2)

\* C21: a CREATE VIEW renders "CREATE ", "TEMP " iff temporary() was called,
\* "VIEW IF NOT EXISTS name", the column list, " AS select;"; the column list
\* is parenthesized and ", "-joined iff an alias was supplied; column() and
\* columns() append their aliases in the order supplied
C21_ViewRender ==
    /\ [][family = "view" =>
             /\ builder'.raw.name = builder.raw.name
             /\ Called("column") =>
                    builder'.raw.columns = builder.raw.columns \o <<call'.arg>>
             /\ Called("columns") =>
                    /\ Len(builder'.raw.columns) =
                           Len(builder.raw.columns) + Len(call'.arg)
                    /\ \A k \in 1..Len(builder.raw.columns) :
                           builder'.raw.columns[k] = builder.raw.columns[k]
                    /\ \A k \in 1..Len(call'.arg) :
                           builder'.raw.columns[Len(builder.raw.columns) + k]
                               = call'.arg[k]
             /\ Called("as_") => builder'.raw.select = call'.arg
             /\ ~(Called("column") \/ Called("columns")) =>
                    builder'.raw.columns = builder.raw.columns]_vars
    /\ [](family = "view" /\ Rendered =>
             /\ out = <<"CREATE ">>
                      \o (IF "temporary" \in called THEN <<"TEMP ">> ELSE <<>>)
                      \o <<"VIEW IF NOT EXISTS ">> \o builder.raw.name
                      \o AliasList(builder.raw.columns)
                      \o <<" AS ">> \o builder.raw.select \o <<";">>
             /\ Contains(out, "(") <=> builder.raw.columns # <<>>
             /\ Count(out, ", ") = (IF builder.raw.columns = <<>> THEN 0
                                    ELSE Len(builder.raw.columns) - 1))

\* a temporary view rendered after columns(["b","c"]) and then column("a")
C21_Witness ==
    /\ family = "view" /\ Rendered
    /\ "temporary" \in called
    /\ builder.raw.columns = << <<"b">>, <<"c">>, <<"a">> >>
    /\ out = <<"CREATE ", "TEMP ", "VIEW IF NOT EXISTS ", "t", "(", "b", ", ",
               "c", ", ", "a", ")", " AS ", "SELECT 1", ";">>

\* C22: a new ForeignKey has delete action RESTRICT and no update action; a
\* render holds exactly one "ON DELETE a", a the last action given to
\* on_delete (RESTRICT if none was), and holds "ON UPDATE b" iff on_update was
\* called, b the last action given; on_delete and on_update change nothing
\* but their own action, and references changes neither action
C22_ForeignKeyActions ==
    /\ [][family = "foreign_key" =>
             /\ Called("on_delete") =>
                    builder'.raw = [builder.raw EXCEPT
                                        !.delete_action = Some(call'.arg[1])]
             /\ Called("on_update") =>
                    builder'.raw = [builder.raw EXCEPT
                                        !.update_action = Some(call'.arg[1])]
             /\ Called("references") =>
                    /\ builder'.raw.delete_action = builder.raw.delete_action
                    /\ builder'.raw.update_action = builder.raw.update_action
                    /\ builder'.raw.col = builder.raw.col]_vars
    /\ [](family = "foreign_key" =>
             /\ ncalls = 0 =>
                    /\ builder.raw.delete_action = Some("Restrict")
                    /\ builder.raw.update_action = None
             /\ "on_delete" \notin called =>
                    builder.raw.delete_action = Some("Restrict")
             /\ builder.raw.delete_action.tag = "Some"
             /\ builder.raw.update_action.tag = "Some" <=> "on_update" \in called
             /\ Rendered =>
                    /\ Count(out, "ON DELETE ") = 1
                    /\ TextAfter(out, "ON DELETE ", 1) =
                           ForeignKeyAction_to_str(builder.raw.delete_action.val)
                    /\ Contains(out, "ON UPDATE ") <=> "on_update" \in called
                    /\ "on_update" \in called =>
                           /\ Count(out, "ON UPDATE ") = 1
                           /\ TextAfter(out, "ON UPDATE ", 1) =
                                  ForeignKeyAction_to_str(
                                      builder.raw.update_action.val))

\* a key rendered after references, on_update and two on_delete calls
C22_Witness ==
    /\ family = "foreign_key" /\ Rendered /\ ncalls = 4
    /\ called = {"references", "on_delete", "on_update"}
    /\ out = <<" FOREIGN KEY (", "t", ") REFERENCES ", "t", " (", "t", ") ",
               "ON DELETE ", "CASCADE", " ", "ON UPDATE ", "SET NULL", " ">>

\* the clause keywords of a column definition, in their rendering order
ColumnKeywords ==
    <<" NOT NULL", " UNIQUE", " PRIMARY KEY", " DEFAULT ", " CHECK(", " AS (">>

\* the type name each type method selects
TypeNames ==
    [int |-> <<"INTEGER">>, real |-> <<"REAL">>, text |-> <<"TEXT">>,
     blob |-> <<"BLOB">>]

\* the tokens a set optional value adds to the render (0 when it is None)
OptLen(opt, extra) == IF opt.tag = "Some" THEN extra ELSE 0

\* C23: a column renders name, type and then its clauses in the fixed order
\* NOT NULL, UNIQUE, PRIMARY KEY, DEFAULT v, CHECK(c), AS (expr) VIRTUAL|STORED
\* whatever the call order, so the text is a function of the field values;
\* the type is that of the last of int/real/text/blob called (INTEGER if
\* none); each optional clause appears exactly when its flag or value is set
C23_ColumnClauses ==
    /\ [][family = "column" =>
             /\ \A op \in DOMAIN TypeNames :
                    Called(op) => builder'.raw.typ_ = TypeNames[op]
             /\ ~(\E op \in DOMAIN TypeNames : Called(op)) =>
                    builder'.raw.typ_ = builder.raw.typ_]_vars
    /\ [](family = "column" =>
             LET c == builder.raw
             IN  /\ called \cap DOMAIN TypeNames = {} => c.typ_ = <<"INTEGER">>
                 /\ Rendered =>
                        /\ SubSeq(out, 1, Len(c.name) + 2)
                               = c.name \o <<" ">> \o c.typ_
                        /\ \A i, j \in DOMAIN out :
                               (/\ i < j
                                /\ Contains(ColumnKeywords, out[i])
                                /\ Contains(ColumnKeywords, out[j]))
                               => IndexOf(ColumnKeywords, out[i])
                                      < IndexOf(ColumnKeywords, out[j])
                        /\ Contains(out, " NOT NULL") <=> c.not_null
                        /\ Contains(out, " UNIQUE") <=> c.unique
                        /\ Contains(out, " PRIMARY KEY") <=> c.primary_key
                        /\ Contains(out, " DEFAULT ") <=> c.default_val.tag = "Some"
                        /\ Contains(out, " CHECK(") <=> c.check.tag = "Some"
                        /\ Contains(out, " AS (") <=> c.generated.tag = "Some"
                        /\ c.default_val.tag = "Some" =>
                               TextAfter(out, " DEFAULT ", Len(c.default_val.val))
                                   = c.default_val.val
                        /\ c.check.tag = "Some" =>
                               TextAfter(out, " CHECK(", Len(c.check.val) + 1)
                                   = c.check.val \o <<")">>
                        /\ c.generated.tag = "Some" =>
                               TextAfter(out, " AS (",
                                         Len(c.generated.val.expr) + 2)
                                   = c.generated.val.expr
                                     \o <<") ", IF c.generated.val.type_ = "Stored"
                                                THEN "STORED" ELSE "VIRTUAL">>
                        /\ Len(out) =
                               Len(c.name) + 2
                               + (IF c.not_null THEN 1 ELSE 0)
                               + (IF c.unique THEN 1 ELSE 0)
                               + (IF c.primary_key THEN 1 ELSE 0)
                               + OptLen(c.default_val, 1)
                               + OptLen(c.default_val, Len(c.default_val.val))
                               + OptLen(c.check, 2)
                               + OptLen(c.check, Len(c.check.val))
                               + OptLen(c.generated, 3)
                               + OptLen(c.generated, Len(c.generated.val.expr)))

\* a TEXT column rendered after text, unique, check and default_value
C23_Witness ==
    /\ family = "column" /\ Rendered
    /\ called = {"text", "unique", "check", "default_value"}
    /\ out = <<"t", " ", "TEXT", " NOT NULL", " UNIQUE", " DEFAULT ", "p",
               " CHECK(", "p", ")">>

\* the live stage of a query builder offers a render
CanRender == ENABLED (NextQuery /\ call'.op = "to_string")

\* C24: an INSERT renders only after insert, into and values, each applied
\* once and in that order; an UPDATE renders only after update and set; the
\* stages Insert, InsertInto and Update offer no render; a DELETE renders at
\* both of its stages
C24_RequiredStages ==
    /\ [][/\ (family = "insert" /\ CalledAny) =>
                 <<builder.stage, call'.op, builder'.stage>> \in
                     { <<"Insert", "into", "InsertInto">>,
                       <<"InsertInto", "values", "FinalInsert">> }
          /\ (family = "update" /\ CalledAny /\ builder.stage = "Update") =>
                 (call'.op = "set" /\ builder'.stage = "UpdateSet")
          /\ (family = "update" /\ CalledAny) => builder'.stage # "Update"]_vars
    /\ [](family = "insert" =>
             /\ ncalls = 0 => (builder.stage = "Insert" /\ call.op = "insert")
             /\ CanRender <=> builder.stage = "FinalInsert"
             /\ builder.stage = "FinalInsert" <=>
                    (called = {"into", "values"} /\ ncalls = 2)
             /\ Rendered => builder.stage = "FinalInsert")
    /\ [](family = "update" =>
             /\ ncalls = 0 => (builder.stage = "Update" /\ call.op = "update")
             /\ CanRender <=> builder.stage \in {"UpdateSet", "UpdateWhere"}
             /\ builder.stage \in {"UpdateSet", "UpdateWhere"} <=> "set" \in called
             /\ Rendered => "set" \in called)
    /\ [](family = "delete" =>
             (builder.stage \in {"DeleteFrom", "DeleteWhere"} /\ CanRender))

\* an INSERT rendered after into and values with two columns and two values
C24_Witness ==
    /\ family = "insert" /\ Rendered
    /\ builder.stage = "FinalInsert" /\ ncalls = 2
    /\ builder.raw.columns = <<"a", ", ", "b">>
    /\ builder.raw.values = <<"1", ", ", "2">>

\* the items of list in order, with ", " between neighbours
CommaJoined(list) ==
    LET upto[k \in 0..Len(list)] ==
            IF k = 0 THEN <<>>
            ELSE IF k = 1 THEN list[1]
            ELSE upto[k - 1] \o <<", ">> \o list[k]
    IN  upto[Len(list)]

\* C25: insert(cols).into(t).values(vals) renders "INSERT INTO t(", cols
\* joined by ", ", ") VALUES(", vals joined by ", ", ")" for lists of any
\* lengths: the two counts are not compared, and empty lists render
\* INSERT INTO t() VALUES()
C25_InsertRender ==
    /\ [][family = "insert" =>
             /\ Called("into") =>
                    builder'.raw = [builder.raw EXCEPT !.table = call'.arg]
             /\ Called("values") =>
                    builder'.raw = [builder.raw EXCEPT
                                        !.values = CommaJoined(call'.arg)]
             /\ call'.op = "to_string" =>
                    out' = <<"INSERT INTO ">> \o builder.raw.table \o <<"(">>
                           \o builder.raw.columns \o <<") VALUES(">>
                           \o builder.raw.values \o <<")">>]_vars
    /\ [](family = "insert" /\ ncalls = 0 =>
             /\ builder.raw.columns = CommaJoined(call.arg)
             /\ builder.raw.table = <<>> /\ builder.raw.values = <<>>)

\* an INSERT of one column and two values has been rendered
C25_Witness ==
    /\ family = "insert" /\ Rendered
    /\ out = <<"INSERT INTO ", "t", "(", "a", ") VALUES(", "1", ", ", "2", ")">>

\* the text of a statement that ends in an optional WHERE clause
WithWhere(head, wasCalled, pred) ==
    IF wasCalled THEN head \o <<" WHERE ">> \o pred ELSE head

\* C26: an UPDATE renders "UPDATE table SET " and the pairs as "col = value"
\* joined by ", " in the order given; a DELETE renders "DELETE FROM table";
\* in both " WHERE predicate" follows if and only if where_ was called
C26_UpdateDeleteRender ==
    /\ [][(family = "update" /\ Called("set")) =>
             builder'.raw.data =
                 CommaJoined([i \in 1..Len(call'.arg) |->
                                 call'.arg[i][1] \o <<" = ">> \o call'.arg[i][2]])
         ]_vars
    /\ [](family = "update" /\ Rendered =>
             /\ out = WithWhere(<<"UPDATE ">> \o builder.raw.table \o <<" SET ">>
                                \o builder.raw.data,
                                "where_" \in called, builder.raw.where_)
             /\ Contains(out, " WHERE ") <=> "where_" \in called)
    /\ [](family = "delete" /\ Rendered =>
             /\ out = WithWhere(<<"DELETE FROM ">> \o builder.raw.table,
                                "where_" \in called, builder.raw.where_)
             /\ Contains(out, " WHERE ") <=> "where_" \in called)

\* part occurs in text as a run of consecutive tokens
Embedded(text, part) ==
    \E i \in 0..(Len(text) - Len(part)) : SubSeq(text, i + 1, i + Len(part)) = part

\* the field a predicate call of the outer statement writes
NestedPred(b) == IF b.stage = "HavingQuery" THEN b.raw.having ELSE b.raw.where_

\* C27: a fragment given to where_, having, and, or appears verbatim in the
\* rendered parent: with the rendered text of a SELECT substituted into the
\* fragment, the parent renders with the literal inner SQL embedded; building
\* the inner statement does not change the outer record, and the
\* substitution does not change the inner one
C27_NestedVerbatim ==
    /\ [][family = "nested" =>
             LET inner == Displayed(Deref(handles[1]))
             IN  /\ (CalledAny /\ call'.on = 0) =>
                        /\ call'.arg = <<"c IN (">> \o inner \o <<")">>
                        /\ handles' = handles /\ records' = records
                        /\ call'.op \in {"where_", "having"} =>
                               NestedPred(builder') = call'.arg
                        /\ call'.op \in {"and", "or"} =>
                               NestedPred(builder') =
                                   NestedPred(builder)
                                   \o <<IF call'.op = "and" THEN " AND " ELSE " OR ">>
                                   \o call'.arg
                        /\ Embedded(Displayed(builder'),
                                    <<IF builder'.stage = "HavingQuery"
                                      THEN " HAVING " ELSE " WHERE ">>
                                    \o NestedPred(builder'))
                        /\ Embedded(Displayed(builder'), inner)
                 /\ (CalledAny /\ call'.on = 1) => builder' = builder
                 /\ call'.op = "to_string" =>
                        (out' = Displayed(builder) /\ builder' = builder)]_vars
    /\ [](family = "nested" /\ Rendered /\ called # {} =>
             /\ Contains(out, "c IN (")
             /\ Embedded(out, NestedPred(builder)))

\* DELETE ... WHERE c IN (SELECT ...) has been rendered
C27_Witness ==
    /\ family = "nested" /\ Rendered
    /\ out = <<"DELETE FROM ", "t", " WHERE ", "c IN (", "SELECT", " ", "a",
               ", ", "b", " FROM ", "t", " WHERE ", "p", ")">>

\* C28: select(["a","b"]).from("t").where_("a=1").and("b=2").group_by(["a"])
\* .having("count>1").order_by("a") renders exactly
\* SELECT a, b FROM t WHERE a=1 AND b=2 GROUP BY a HAVING count>1 ORDER BY a ASC
\* (each call stores its argument as the chain prescribes, and the record the
\* seven calls leave renders as that text)
C28_RoundTrip ==
    /\ [][family = "scenario" =>
             /\ CalledAny =>
                    <<builder.stage, call'.op, builder'.stage>> \in
                        { <<"SelectQuery", "from", "SelectQuery">>,
                          <<"SelectQuery", "where_", "WhereQuery">>,
                          <<"WhereQuery", "and", "WhereQuery">>,
                          <<"WhereQuery", "group_by", "GroupQuery">>,
                          <<"GroupQuery", "having", "HavingQuery">>,
                          <<"HavingQuery", "order_by", "OrderByQuery">> }
             /\ Called("from") =>
                    builder'.raw = [builder.raw EXCEPT !.from = call'.arg]
             /\ Called("where_") =>
                    builder'.raw = [builder.raw EXCEPT !.where_ = call'.arg]
             /\ Called("and") =>
                    builder'.raw = [builder.raw EXCEPT
                                        !.where_ = @ \o <<" AND ">> \o call'.arg]
             /\ Called("group_by") =>
                    builder'.raw = [builder.raw EXCEPT
                                        !.group_by = CommaJoined(call'.arg)]
             /\ Called("having") =>
                    builder'.raw = [builder.raw EXCEPT !.having = call'.arg]
             /\ Called("order_by") =>
                    builder'.raw = [builder.raw EXCEPT
                                        !.sort_by = <<<<call'.arg, "Asc">>>>]]_vars
    /\ [](family = "scenario" /\ call.op = "select" =>
             /\ builder.raw.select = CommaJoined(call.arg)
             /\ \A f \in {"from", "where_", "group_by", "having", "sort_by"} :
                    builder.raw[f] = <<>>
             /\ ~builder.raw.distinct
             /\ builder.raw.limit = None /\ builder.raw.offset = None)
    /\ [](family = "scenario" /\ Rendered /\ ncalls = 6
              /\ builder.raw.select = <<"a", ", ", "b">>
              /\ builder.raw.from = <<"t">>
              /\ builder.raw.where_ = <<"a=1", " AND ", "b=2">>
              /\ builder.raw.group_by = <<"a">>
              /\ builder.raw.having = <<"count>1">>
              /\ builder.raw.sort_by = << <<<<"a">>, "Asc">> >>
          => out = <<"SELECT", " ", "a", ", ", "b", " FROM ", "t",
                     " WHERE ", "a=1", " AND ", "b=2", " GROUP BY ", "a",
                     " HAVING ", "count>1", " ORDER BY ", "a", " ", "ASC">>)

\* the seven calls have been made with the scenario's arguments and rendered
C28_Witness ==
    /\ family = "scenario" /\ Rendered /\ ncalls = 6
    /\ builder.stage = "OrderByQuery"
    /\ builder.raw.where_ = <<"a=1", " AND ", "b=2">>
    /\ builder.raw.group_by = <<"a">>
    /\ out = <<"SELECT", " ", "a", ", ", "b", " FROM ", "t",
               " WHERE ", "a=1", " AND ", "b=2", " GROUP BY ", "a",
               " HAVING ", "count>1", " ORDER BY ", "a", " ", "ASC">>

\* C29: a DROP statement renders as one line: drop_view(n) as
\* "DROP VIEW IF EXISTS n;", drop_trigger(n) as "DROP TRIGGER IF EXISTS n;"
\* and drop_table(n) as "DROP TABLE n;", without IF EXISTS, for every name
C29_DropRender ==
    /\ [][family = "drop" => builder' = builder]_vars
    /\ [](family = "drop" =>
             /\ call.op = "drop_table" => builder = Stage("DropTable", call.arg)
             /\ call.op = "drop_view" => builder = Stage("ViewDrop", call.arg)
             /\ call.op = "drop_trigger" => builder = Stage("TriggerDrop", call.arg)
             /\ Rendered =>
                    /\ ~Contains(out, "\n")
                    /\ builder.stage = "DropTable" =>
                           out = <<"DROP TABLE ">> \o builder.raw \o <<";">>
                    /\ builder.stage = "ViewDrop" =>
                           out = <<"DROP VIEW IF EXISTS ">> \o builder.raw \o <<";">>
                    /\ builder.stage = "TriggerDrop" =>
                           out = <<"DROP TRIGGER IF EXISTS ">> \o builder.raw
                                 \o <<";">>)

\* DROP TABLE t; has been rendered
C29_Witness ==
    /\ family = "drop" /\ Rendered
    /\ builder = Stage("DropTable", <<"t">>)
    /\ out = <<"DROP TABLE ", "t", ";">>

\* C30: every trigger that can be rendered (every TriggerFull value, reached
\* through statement or statements) has at least one body statement, so its
\* render has at least one line between BEGIN and END;
C30_BodyRequired ==
    (family = "trigger" /\ builder.stage = "TriggerFull") =>
        /\ BodyOps \cap called # {}
        /\ Len(builder.raw.stmts) >= 1
        /\ Rendered =>
               LET lines == TriggerLines(out)
               IN  /\ lines[Len(lines)] = <<"END;">>
                   /\ Len(lines) >= BeginLine(lines) + 2

\* C31: in every rendered SELECT a HAVING clause appears only with a GROUP BY
\* clause before it: having is offered only by the stage group_by returns, so
\* no call sequence renders HAVING without GROUP BY, group_by with an empty
\* field list included
C31_HavingNeedsGroupBy ==
    family = "select" =>
        /\ "having" \in called => "group_by" \in called
        /\ (Rendered /\ Contains(out, " HAVING ")) =>
               /\ Contains(out, " GROUP BY ")
               /\ IndexOf(out, " GROUP BY ") < IndexOf(out, " HAVING ")

\* the field of the record a SELECT builder call writes
WrittenField(stage, op) ==
    CASE op \in {"order_by", "asc", "desc"} -> "sort_by"
      [] op \in {"and", "or"} -> IF stage = "HavingQuery" THEN "having" ELSE "where_"
      [] OTHER -> op

\* the fields no call can change any more once the builder is at stage
FrozenAt(stage) ==
    CASE stage = "SelectQuery" -> {}
      [] stage = "WhereQuery" -> {"select", "from", "distinct", "limit", "offset"}
      [] stage = "GroupQuery" ->
             {"select", "from", "distinct", "limit", "offset", "where_"}
      [] stage = "HavingQuery" ->
             {"select", "from", "distinct", "limit", "offset", "where_", "group_by"}
      [] stage = "OrderByQuery" ->
             {"select", "from", "distinct", "limit", "offset", "where_", "group_by",
              "having"}

C33_SortKeyPresent ==
    /\ [](family = "select" /\ builder.stage = "OrderByQuery" =>
             /\ Len(builder.raw.sort_by) >= 1
             /\ "order_by" \in called
             /\ Rendered =>
                    /\ Count(out, " ORDER BY ") = 1
                    /\ IndexOf(out, " ORDER BY ") < Len(out))
    /\ [][family = "select" =>
             /\ Len(builder'.raw.sort_by) >= Len(builder.raw.sort_by)
             /\ (Called("asc") \/ Called("desc")) =>
                    /\ builder.stage = "OrderByQuery"
                    /\ builder.raw.sort_by # <<>>
                    /\ builder'.raw.sort_by[Len(builder.raw.sort_by)][2] =
                           (IF call'.op = "asc" THEN "Asc" ELSE "Desc")]_vars

\* an OrderByQuery with two keys, reached through asc and desc, is rendered
C33_Witness ==
    /\ family = "select" /\ Rendered
    /\ builder.stage = "OrderByQuery"
    /\ {"asc", "desc"} \subseteq called
    /\ Len(builder.raw.sort_by) = 2
    /\ Contains(out, " ORDER BY ")
    /\ ~Contains(out, " WHERE ")

\* C34: rename_to is last-write-wins: a render holds at most one RENAME TO
\* statement, carrying the last name given; every rendered statement, those
\* after the RENAME TO statement included, names the table by the name
\* passed to alter_table; an AlterTable with no recorded operation renders
\* the empty string
C34_RenameHandling ==
    /\ [][family = "alter_table" =>
             /\ builder'.raw.name = builder.raw.name
             /\ Called("rename_to") => builder'.raw.new_name = Some(call'.arg)
             /\ ~Called("rename_to") =>
                    builder'.raw.new_name = builder.raw.new_name]_vars
    /\ [](family = "alter_table" =>
             LET t == builder.raw
             IN  /\ call.op = "alter_table" =>
                        (t.name = call.arg /\ t.new_name = None)
                 /\ t.new_name.tag = "Some" <=> "rename_to" \in called
                 /\ Rendered =>
                        /\ Count(out, " RENAME TO ") =
                               (IF "rename_to" \in called THEN 1 ELSE 0)
                        /\ "rename_to" \in called =>
                               /\ out[1] = "ALTER TABLE "
                               /\ TextAfter(out, " RENAME TO ", Len(t.new_name.val) + 1)
                                      = t.new_name.val \o <<";">>
                        /\ \A i \in DOMAIN out :
                               out[i] = "ALTER TABLE " =>
                                   /\ SubSeq(out, i + 1, i + Len(t.name)) = t.name
                                   /\ out[i + Len(t.name) + 1] \in
                                          {" RENAME TO ", " RENAME COLUMN ",
                                           " ADD COLUMN ", " DROP COLUMN "}
                        /\ ncalls = 0 => out = <<>>
                        /\ out = <<>> => called = {})

\* a table renamed twice, with a column rename and a column drop, is rendered
C34_Witness ==
    /\ family = "alter_table" /\ Rendered /\ ncalls = 4
    /\ called = {"rename_to", "rename_column", "drop_column"}
    /\ out = <<"ALTER TABLE ", "t", " RENAME TO ", "v", ";", "\n",
               "ALTER TABLE ", "t", " RENAME COLUMN ", "a", " TO ", "b", ";", "\n",
               "ALTER TABLE ", "t", " DROP COLUMN ", "t", ";">>

====
